---- MODULE Spec2Model ----
(***************************************************************************)
(* Stock exchange engine: pre-forked worker processes (server.py), each    *)
(* with a process-local MatchingEngine (matching_engine.py), sharing one   *)
(* PostgreSQL store through SQLAlchemy sessions (database.py, model.py),   *)
(* driven by the XML request handler (xml_handler.py).                     *)
(*                                                                         *)
(* The store is modelled at READ COMMITTED: the variables accounts,        *)
(* symbols, positions, orders and executions hold the committed rows; a    *)
(* session's loaded and modified objects (its identity map) live in        *)
(* ctx[w] until the commit writes them; a row lock is taken by             *)
(* SELECT ... FOR UPDATE and by the UPDATE a flush emits, and is held      *)
(* until the session's commit or rollback.                                 *)
(***************************************************************************)
EXTENDS Integers, Sequences, FiniteSets, TLC

(* ---------------------------- bounds ---------------------------------- *)
NumWorkers == 2
NumAccounts == 2
MaxOrders == 3
MaxIssued == 2
MaxCredits == 2

Workers == 1 .. NumWorkers
AccountIds == 1 .. NumAccounts
Symbols == {"SYM"}
OrderIds == 1 .. MaxOrders

\* request attribute values the concurrent specification draws from
Balances == {4}
SymbolAmounts == {2}
OrderAmounts == {2, -1}
LimitPrices == {1, 2}
Ticks == {1}

\* request attribute values the create specifications draw from
CreateBalances == {3, 4}
CreateAmounts == {-1, 0, 2}

\* the most children a <create> or <transactions> request of the batch
\* specification has
MaxChildren == 2

\* threads sharing the in-memory Order and Account objects
NumThreads == 2

\* the largest balance and the largest position the calls on the in-memory
\* Account object raise it to
MaxBalance == 2
MaxPosition == 2

\* the most requests a client sends on one connection
MaxFrames == 3

\* request attribute values the single-worker specification draws from
SeqWorkers == {1}
SeqBalances == {-1, 4}
SeqSymbolAmounts == {-1, 2}
SeqOrderAmounts == {2, -1, 0}
SeqTicks == {0, 1}

\* canceled_at / order_id value standing for None
NoTime == -1
NoOrder == 0

(* ---------------------------- state ----------------------------------- *)
VARIABLES
    accounts,      \* committed accounts table: id -> balance
    symbols,       \* committed symbols table: set of names
    positions,     \* committed positions table: sequence of rows (no unique constraint)
    orders,        \* committed orders table: id -> row
    executions,    \* committed executions table: sequence of rows
    next_order_id, \* the orders.id sequence of the store
    clock,         \* last value datetime.utcnow() returned
    locks,         \* row locks: set of <<worker, table, key>>
    buy_orders,    \* per worker process: symbol -> heap of (-price, time, order_id)
    sell_orders,   \* per worker process: symbol -> heap of (price, time, order_id)
    ctx,           \* per worker process: the request child being served and its session
    refunded,      \* history: order id -> shares its cancel refunded or returned
    ledger,        \* history: account id -> initial balance plus committed deltas
    issued,        \* history: symbol -> the credits committed by create_symbol
    funded,        \* history: sum of the initial balances of created accounts
    reply,         \* the result element the last step appended to a <results> tree
    book_at_call,  \* history: per worker, its book when place_order was called
    order_object,  \* an in-memory Order object, <<>> before its construction
    account_object, \* an in-memory Account object, <<>> before its construction
    thread         \* per thread: the method of an object it is in and its result

vars == <<accounts, symbols, positions, orders, executions, next_order_id, clock,
          locks, buy_orders, sell_orders, ctx, refunded, ledger, issued, funded,
          reply, book_at_call, order_object, account_object, thread>>

store == <<accounts, symbols, positions, orders, executions>>
books == <<buy_orders, sell_orders>>
history == <<refunded, ledger, issued, funded>>
objects == <<order_object, account_object, thread>>
server == <<store, next_order_id, clock, locks, books, ctx, history, reply, book_at_call>>

(* ---------------------------- helpers --------------------------------- *)
Abs(x) == IF x < 0 THEN -x ELSE x

Min(x, y) == IF x <= y THEN x ELSE y

RECURSIVE SumOver(_, _)
\* sum of f[x] over the finite set S
SumOver(S, f) ==
    IF S = {} THEN 0
    ELSE LET x == CHOOSE y \in S : TRUE IN f[x] + SumOver(S \ {x}, f)

Max(x, y) == IF x >= y THEN x ELSE y

\* Python tuple comparison of heap entries (key, time, order_id)
TupleLess(t, u) ==
    \/ t[1] < u[1]
    \/ t[1] = u[1] /\ t[2] < u[2]
    \/ t[1] = u[1] /\ t[2] = u[2] /\ t[3] < u[3]

\* heapq.heappop: the smallest entry of a heap
HeapMin(h) == CHOOSE t \in h : \A u \in h : u = t \/ TupleLess(t, u)

\* the heap entry add_to_orderbook pushes for an order
BookEntry(id, amount, limit_price, created_at) ==
    IF amount > 0 THEN <<-limit_price, created_at, id>>
    ELSE <<limit_price, created_at, id>>

\* remove_from_orderbook: filter the entries of an order id out of a heap
RemoveFromHeap(h, ids) == {t \in h : t[3] \notin ids}

\* a session's view of the row locks
LockFree(w, table, key) == \A l \in locks : (l[2] = table /\ l[3] = key) => l[1] = w

Lock(w, table, key) == <<w, table, key>>

ReleaseLocks(w) == {l \in locks : l[1] # w}

\* rows of the positions table for an (account, symbol) pair
PositionRows(a, s) ==
    {i \in 1 .. Len(positions) :
        positions[i].account_id = a /\ positions[i].symbol_name = s}

IdleCtx ==
    [pc |-> "idle", account_id |-> 0, symbol |-> "", amount |-> 0, limit_price |-> 0,
     order_id |-> NoOrder, open_shares |-> 0, created_at |-> 0, tick |-> 0,
     temp_heap |-> {}, remaining_shares |-> 0, matched_order_ids |-> {},
     opposite |-> NoOrder, opposite_open |-> 0, executable_shares |-> 0,
     execution_price |-> 0, flush_account |-> 0, flush_position |-> 0,
     balance |-> <<>>, position |-> <<>>, new_positions |-> <<>>,
     order_open |-> <<>>, new_executions |-> <<>>,
     request |-> <<>>, child |-> 0, results |-> <<>>, transactions |-> <<>>,
     new_accounts |-> <<>>, new_symbols |-> {},
     connection |-> "none", frame |-> "", replies |-> 0, frames |-> 0]

\* no result element
NoReply ==
    [tag |-> "none", account_id |-> 0, id |-> NoOrder, sym |-> "", amount |-> 0,
     limit |-> 0, error |-> "", body |-> <<>>]

\* <created id=a/> and <created sym=s id=a/> of handle_create
Created(a, s) == [NoReply EXCEPT !.tag = "created", !.account_id = a, !.sym = s]

\* <opened sym= amount= limit= id=/> of _process_order
Opened(c) ==
    [NoReply EXCEPT !.tag = "opened", !.account_id = c.account_id, !.id = c.order_id,
                    !.sym = c.symbol, !.amount = c.amount, !.limit = c.limit_price]

\* <error sym= amount= limit= error=/> of _process_order: no id attribute
OrderError(c, error_msg) ==
    [NoReply EXCEPT !.tag = "error", !.account_id = c.account_id, !.sym = c.symbol,
                    !.amount = c.amount, !.limit = c.limit_price, !.error = error_msg]

\* <error id=trans_id>text</error> of handle_cancel
CancelErrorElem(a, id, error_msg) ==
    [NoReply EXCEPT !.tag = "error", !.account_id = a, !.id = id, !.error = error_msg]

\* <canceled id=trans_id> of handle_cancel
Canceled(c) ==
    [NoReply EXCEPT !.tag = "canceled", !.account_id = c.account_id, !.id = c.order_id]

\* <status id=trans_id> of _process_query with its child elements
Status(a, id, parts) ==
    [NoReply EXCEPT !.tag = "status", !.account_id = a, !.id = id, !.body = parts]

\* the book of a worker that is not inside place_order
NoBook == <<{}, {}>>

\* threads calling the methods of the in-memory objects
Threads == 1 .. NumThreads

\* no object: the name is not bound yet
NoObject == <<>>

\* a thread outside every method
IdleThread == [pc |-> "idle", op |-> "", ret |-> "none", args |-> <<>>]

Init ==
    /\ accounts = <<>>
    /\ symbols = {}
    /\ positions = <<>>
    /\ orders = <<>>
    /\ executions = <<>>
    /\ next_order_id = 1
    /\ clock = 0
    /\ locks = {}
    /\ buy_orders = [w \in Workers |-> [s \in Symbols |-> {}]]
    /\ sell_orders = [w \in Workers |-> [s \in Symbols |-> {}]]
    /\ ctx = [w \in Workers |-> IdleCtx]
    /\ refunded = <<>>
    /\ ledger = <<>>
    /\ issued = [s \in Symbols |-> <<>>]
    /\ funded = 0
    /\ reply = NoReply
    /\ book_at_call = [w \in Workers |-> NoBook]
    /\ order_object = NoObject
    /\ account_object = NoObject
    /\ thread = [t \in Threads |-> IdleThread]

\* the shares create_symbol has credited to a symbol so far
IssuedShares(s) ==
    SumOver(1 .. Len(issued[s]), [k \in 1 .. Len(issued[s]) |-> issued[s][k].amount])

(* ------------------- create requests (handle_create) ------------------ *)
\* Each create child runs in a session_scope of its own; its reads and its
\* commit are taken as one step.
\* <account id=a balance=balance/>: Database.create_account
CreateAccount(w, a, balance) ==
    /\ ctx[w].pc = "idle"
    /\ a \notin DOMAIN accounts
    /\ accounts' = accounts @@ (a :> balance)
    /\ ledger' = ledger @@ (a :> balance)
    /\ funded' = funded + balance
    /\ reply' = Created(a, "")
    /\ UNCHANGED <<symbols, positions, orders, executions, next_order_id, clock, locks,
                   buy_orders, sell_orders, ctx, refunded, issued, book_at_call, objects>>

\* <symbol sym=s><account id=a>amount</account></symbol>: Database.create_symbol
CreateSymbol(w, s, a, amount) ==
    /\ ctx[w].pc = "idle"
    /\ a \in DOMAIN accounts
    /\ Len(issued[s]) < MaxCredits
    /\ IssuedShares(s) + amount <= MaxIssued
    /\ symbols' = symbols \cup {s}
    /\ \/ /\ PositionRows(a, s) = {}
          /\ positions' = Append(positions,
                 [account_id |-> a, symbol_name |-> s, amount |-> amount])
       \/ \E i \in PositionRows(a, s) :
            /\ LockFree(w, "positions", i)
            /\ positions' = [positions EXCEPT ![i].amount = @ + amount]
    /\ issued' = [issued EXCEPT ![s] = Append(@, [account_id |-> a, amount |-> amount])]
    /\ reply' = Created(a, s)
    /\ UNCHANGED <<accounts, orders, executions, next_order_id, clock, locks,
                   buy_orders, sell_orders, ctx, refunded, ledger, funded, book_at_call,
                   objects>>

(* ------------------- MatchingEngine.place_order ----------------------- *)
\* the end of match_orders: drop the fully matched orders (and an order just
\* skipped as closed) from the book and rest the new order if it still has
\* open shares
FinishMatch(w, c, skipped) ==
    LET s == c.symbol
        e == BookEntry(c.order_id, c.amount, c.limit_price, c.created_at)
        rest == c.open_shares # 0
    IN  /\ buy_orders' = [buy_orders EXCEPT ![w][s] =
              IF c.amount > 0
              THEN (IF rest THEN @ \cup {e} ELSE @)
              ELSE RemoveFromHeap(@, c.matched_order_ids \cup skipped)]
        /\ sell_orders' = [sell_orders EXCEPT ![w][s] =
              IF c.amount > 0
              THEN RemoveFromHeap(@, c.matched_order_ids \cup skipped)
              ELSE (IF rest THEN @ \cup {e} ELSE @)]
        /\ ctx' = [ctx EXCEPT ![w] = [c EXCEPT !.pc = "commit"]]

\* Database.create_order with its flush, then the head of match_orders
CreateOrder(w, c) ==
    LET t == clock + c.tick IN
        /\ clock' = t
        /\ next_order_id' = next_order_id + 1
        /\ LET s == c.symbol
               matching_orders == IF c.amount > 0 THEN sell_orders[w][s]
                                  ELSE buy_orders[w][s]
               n == [c EXCEPT !.order_id = next_order_id, !.created_at = t,
                              !.open_shares = c.amount]
           IN  IF matching_orders = {} \/ Abs(c.amount) = 0
               THEN FinishMatch(w, n, {})
               ELSE /\ ctx' = [ctx EXCEPT ![w] =
                          [n EXCEPT !.pc = "match", !.temp_heap = matching_orders,
                                    !.remaining_shares = Abs(c.amount)]]
                    /\ UNCHANGED books

\* a funds test that also rejects a cost equal to the balance
SufficientFundsStrict(balance, cost) == balance > cost

\* place_order line 212: account.balance < cost rejects the buy
SufficientFunds(balance, cost) == balance >= cost

\* place_order line 223: position.amount < abs(amount) rejects the sell
SufficientShares(position_amount, amount) == position_amount >= Abs(amount)

\* <order sym=s amount=amount limit=limit_price/> of <transactions id=a>:
\* lock the account row, reserve the cost of a buy
PlaceOrder(w, a, s, amount, limit_price, tick) ==
    /\ ctx[w].pc = "idle"
    /\ a \in DOMAIN accounts
    /\ next_order_id <= MaxOrders
    /\ LockFree(w, "accounts", a)
    /\ locks' = locks \cup {Lock(w, "accounts", a)}
    /\ LET c == [IdleCtx EXCEPT !.account_id = a, !.symbol = s, !.amount = amount,
                                !.limit_price = limit_price, !.tick = tick]
       IN  IF amount > 0
           THEN LET cost == amount * limit_price
                IN  /\ SufficientFunds(accounts[a], cost)
                    /\ s \in symbols
                    /\ CreateOrder(w, [c EXCEPT !.balance =
                           (a :> [val |-> accounts[a] - cost, delta |-> -cost])])
           ELSE /\ ctx' = [ctx EXCEPT ![w] = [c EXCEPT !.pc = "reserve_position"]]
                /\ UNCHANGED <<next_order_id, clock, buy_orders, sell_orders>>
    /\ reply' = NoReply
    /\ book_at_call' = [book_at_call EXCEPT ![w] = <<buy_orders[w], sell_orders[w]>>]
    /\ UNCHANGED <<store, history, objects>>

\* sell: lock the position row and reserve the shares, or fail with
\* "Insufficient shares"
ReservePosition(w) ==
    LET c == ctx[w] IN
    /\ c.pc = "reserve_position"
    /\ \/ /\ \/ PositionRows(c.account_id, c.symbol) = {}
             \/ \E i \in PositionRows(c.account_id, c.symbol) :
                  /\ LockFree(w, "positions", i)
                  /\ ~SufficientShares(positions[i].amount, c.amount)
          /\ locks' = ReleaseLocks(w)
          /\ ctx' = [ctx EXCEPT ![w] = IdleCtx]
          /\ reply' = OrderError(c, "Insufficient shares")
          /\ book_at_call' = [book_at_call EXCEPT ![w] = NoBook]
          /\ UNCHANGED <<next_order_id, clock, buy_orders, sell_orders>>
       \/ \E i \in PositionRows(c.account_id, c.symbol) :
            /\ LockFree(w, "positions", i)
            /\ SufficientShares(positions[i].amount, c.amount)
            /\ locks' = locks \cup {Lock(w, "positions", i)}
            /\ CreateOrder(w, [c EXCEPT !.position =
                   (i :> [val |-> positions[i].amount + c.amount, delta |-> c.amount])])
            /\ reply' = NoReply
            /\ UNCHANGED book_at_call
    /\ UNCHANGED <<store, history, objects>>

\* the order row a session reads with a plain SELECT: the committed row
OrderRow(id) == orders[id]

\* match_orders line 133: the price of the order that was open first
ExecutionPrice(opposite_order, c) ==
    IF opposite_order.created_at < c.created_at THEN opposite_order.limit_price
    ELSE c.limit_price

\* the price test with the comparison of a buy applied to both sides
PriceCompatibleAsBuy(c, opposite_order) ==
    c.limit_price >= opposite_order.limit_price

\* match_orders lines 112-115
PriceCompatible(c, opposite_order) ==
    IF c.amount > 0 THEN c.limit_price >= opposite_order.limit_price
    ELSE c.limit_price <= opposite_order.limit_price

\* Database.execute_order_part: open_shares moves toward zero
ExecuteOrderPart(amount, open_shares, shares) ==
    LET execute_shares == Min(Abs(shares), Abs(open_shares))
    IN  IF amount > 0 THEN open_shares - execute_shares
        ELSE open_shares + execute_shares

\* one iteration of the loop of match_orders up to the two execute_order_part
\* calls: flush the seller's balance of the previous fill (get_order's
\* autoflush), pop the best entry, read the opposite order
MatchOrders(w) ==
    LET c == ctx[w] IN
    /\ c.pc = "match"
    /\ c.flush_account # 0 => LockFree(w, "accounts", c.flush_account)
    /\ locks' = IF c.flush_account # 0
                THEN locks \cup {Lock(w, "accounts", c.flush_account)} ELSE locks
    /\ LET price_tuple == HeapMin(c.temp_heap)
           opposite_order_id == price_tuple[3]
           rest == c.temp_heap \ {price_tuple}
           n == [c EXCEPT !.temp_heap = rest, !.flush_account = 0]
       IN  IF \/ opposite_order_id \notin DOMAIN orders
              \/ OrderRow(opposite_order_id).open_shares = 0
              \/ OrderRow(opposite_order_id).canceled_at # NoTime
           THEN \* skip invalid or closed orders
                IF rest = {}
                THEN FinishMatch(w, n, {opposite_order_id})
                ELSE /\ ctx' = [ctx EXCEPT ![w] = n]
                     /\ buy_orders' = [buy_orders EXCEPT ![w][c.symbol] =
                            IF c.amount > 0 THEN @
                            ELSE RemoveFromHeap(@, {opposite_order_id})]
                     /\ sell_orders' = [sell_orders EXCEPT ![w][c.symbol] =
                            IF c.amount > 0 THEN RemoveFromHeap(@, {opposite_order_id})
                            ELSE @]
           ELSE LET opposite_order == OrderRow(opposite_order_id)
                IN  IF ~PriceCompatible(c, opposite_order)
                    THEN FinishMatch(w, n, {})
                    ELSE LET executable_shares ==
                                 Min(c.remaining_shares, Abs(opposite_order.open_shares))
                             execution_price == ExecutionPrice(opposite_order, c)
                         IN  /\ ctx' = [ctx EXCEPT ![w] = [n EXCEPT
                                    !.pc = "fill_orders",
                                    !.opposite = opposite_order_id,
                                    !.executable_shares = executable_shares,
                                    !.execution_price = execution_price,
                                    !.open_shares = ExecuteOrderPart(c.amount,
                                        c.open_shares, executable_shares),
                                    !.opposite_open = ExecuteOrderPart(
                                        opposite_order.amount,
                                        opposite_order.open_shares, executable_shares),
                                    !.new_executions = c.new_executions \o
                                        << [order_id |-> c.order_id,
                                            shares |-> executable_shares,
                                            price |-> execution_price],
                                           [order_id |-> opposite_order_id,
                                            shares |-> executable_shares,
                                            price |-> execution_price] >>]]
                             /\ UNCHANGED books
    /\ reply' = NoReply
    /\ UNCHANGED <<store, next_order_id, clock, history, book_at_call, objects>>

\* the buyer of the fill in progress
Buyer(c) == IF c.amount > 0 THEN c.account_id ELSE orders[c.opposite].account_id

\* the seller of the fill in progress
Seller(c) == IF c.amount > 0 THEN orders[c.opposite].account_id ELSE c.account_id

\* Database.update_position(buyer_id, symbol, executable_shares, session): its
\* query flushes the two orders (UPDATE of the opposite order's row, which
\* takes its row lock) and the executions, then the buyer's position is read
\* with a plain SELECT, or taken from the session, and credited in memory
UpdatePosition(w) ==
    LET c == ctx[w]
        a == Buyer(c)
        q == c.executable_shares
    IN
    /\ c.pc = "fill_orders"
    /\ LockFree(w, "orders", c.opposite)
    /\ locks' = locks \cup {Lock(w, "orders", c.opposite)}
    /\ LET n == [c EXCEPT !.pc = "fill_position",
                          !.order_open = (c.opposite :> c.opposite_open) @@ @]
           mine == {j \in 1 .. Len(c.new_positions) :
                       c.new_positions[j].account_id = a
                       /\ c.new_positions[j].symbol_name = c.symbol}
       IN  \/ \E i \in PositionRows(a, c.symbol) :
                LET cur == IF i \in DOMAIN c.position THEN c.position[i]
                           ELSE [val |-> positions[i].amount, delta |-> 0]
                IN  ctx' = [ctx EXCEPT ![w] = [n EXCEPT
                        !.position = (i :> [val |-> cur.val + q,
                                            delta |-> cur.delta + q]) @@ @,
                        !.flush_position = i]]
           \/ \E j \in mine :
                ctx' = [ctx EXCEPT ![w] = [n EXCEPT
                    !.new_positions[j].amount = @ + q]]
           \/ /\ PositionRows(a, c.symbol) = {}
              /\ mine = {}
              /\ ctx' = [ctx EXCEPT ![w] = [n EXCEPT
                     !.new_positions = Append(@,
                         [account_id |-> a, symbol_name |-> c.symbol, amount |-> q])]]
    /\ reply' = NoReply
    /\ UNCHANGED <<store, next_order_id, clock, books, history, book_at_call, objects>>

\* Database.update_account_balance(seller_id, total_value, session): its query
\* flushes the buyer's position (UPDATE, which takes the row lock), then the
\* seller's account is read with a plain SELECT, or taken from the session,
\* and credited in memory; then the end of the loop body
UpdateAccountBalance(w) ==
    LET c == ctx[w]
        a == Seller(c)
        total_value == c.execution_price * c.executable_shares
        cur == IF a \in DOMAIN c.balance THEN c.balance[a]
               ELSE [val |-> accounts[a], delta |-> 0]
        remaining_shares == c.remaining_shares - c.executable_shares
        n == [c EXCEPT !.balance = (a :> [val |-> cur.val + total_value,
                                          delta |-> cur.delta + total_value]) @@ @,
                       !.flush_account = a,
                       !.flush_position = 0,
                       !.remaining_shares = remaining_shares,
                       !.matched_order_ids =
                           IF c.opposite_open = 0 THEN @ \cup {c.opposite} ELSE @]
    IN
    /\ c.pc = "fill_position"
    /\ c.flush_position # 0 => LockFree(w, "positions", c.flush_position)
    /\ locks' = IF c.flush_position # 0
                THEN locks \cup {Lock(w, "positions", c.flush_position)} ELSE locks
    /\ IF c.temp_heap # {} /\ remaining_shares > 0
       THEN /\ ctx' = [ctx EXCEPT ![w] = [n EXCEPT !.pc = "match"]]
            /\ UNCHANGED books
       ELSE FinishMatch(w, n, {})
    /\ reply' = NoReply
    /\ UNCHANGED <<store, next_order_id, clock, history, book_at_call, objects>>

\* the commit of session_scope at the end of place_order: flush what is still
\* dirty (the seller's balance of the last fill), commit, release the locks
Commit(w) ==
    LET c == ctx[w] IN
    /\ c.pc = "commit"
    /\ c.flush_account # 0 => LockFree(w, "accounts", c.flush_account)
    /\ accounts' = [a \in DOMAIN accounts |->
           IF a \in DOMAIN c.balance THEN c.balance[a].val ELSE accounts[a]]
    /\ ledger' = [a \in DOMAIN ledger |->
           IF a \in DOMAIN c.balance THEN ledger[a] + c.balance[a].delta ELSE ledger[a]]
    /\ positions' = [i \in 1 .. Len(positions) |->
           IF i \in DOMAIN c.position
           THEN [positions[i] EXCEPT !.amount = c.position[i].val]
           ELSE positions[i]] \o c.new_positions
    /\ orders' = [id \in DOMAIN orders |->
           IF id \in DOMAIN c.order_open
           THEN [orders[id] EXCEPT !.open_shares = c.order_open[id]]
           ELSE orders[id]]
           @@ (c.order_id :>
               [account_id |-> c.account_id, symbol_name |-> c.symbol,
                amount |-> c.amount, limit_price |-> c.limit_price,
                open_shares |-> c.open_shares, created_at |-> c.created_at,
                canceled_at |-> NoTime])
    /\ executions' = executions \o c.new_executions
    /\ locks' = ReleaseLocks(w)
    /\ ctx' = [ctx EXCEPT ![w] = IdleCtx]
    /\ reply' = Opened(c)
    /\ book_at_call' = [book_at_call EXCEPT ![w] = NoBook]
    /\ UNCHANGED <<symbols, next_order_id, clock, books, refunded, issued, funded, objects>>

(* ------------------- composite status of an order --------------------- *)
\* the rows session.query(Execution).filter_by(order_id=id).all() returns
ExecutionsOf(id) == SelectSeq(executions, LAMBDA e : e.order_id = id)

\* total_executed_shares: the sum of the shares of a list of Execution rows
TotalExecutedShares(rows) ==
    SumOver(1 .. Len(rows), [k \in 1 .. Len(rows) |-> rows[k].shares])

\* the <executed shares= price=/> children, one per Execution row
ExecutedParts(rows) ==
    [k \in 1 .. Len(rows) |->
        [part |-> "executed", shares |-> rows[k].shares, price |-> rows[k].price,
         time |-> NoTime]]

\* <open shares=/>
OpenPart(open_shares) ==
    [part |-> "open", shares |-> Abs(open_shares), price |-> 0, time |-> NoTime]

\* <canceled shares= time=/>: max(0, abs(amount) - total_executed_shares)
CanceledPart(amount, rows, canceled_at) ==
    [part |-> "canceled", shares |-> Max(0, Abs(amount) - TotalExecutedShares(rows)),
     price |-> 0, time |-> canceled_at]

\* a status whose canceled part reports the original amount of the order
StatusPartsGross(order, rows) ==
    (IF order.open_shares # 0 /\ order.canceled_at = NoTime
     THEN <<OpenPart(order.open_shares)>> ELSE <<>>)
    \o ExecutedParts(rows)
    \o (IF order.canceled_at # NoTime
        THEN <<[part |-> "canceled", shares |-> Abs(order.amount), price |-> 0,
                time |-> order.canceled_at]>>
        ELSE <<>>)

\* _process_query lines 253-281: the children of <status>
StatusParts(order, rows) ==
    (IF order.open_shares # 0 /\ order.canceled_at = NoTime
     THEN <<OpenPart(order.open_shares)>> ELSE <<>>)
    \o ExecutedParts(rows)
    \o (IF order.canceled_at # NoTime
        THEN <<CanceledPart(order.amount, rows, order.canceled_at)>> ELSE <<>>)

\* a cancel body without the executed parts
CancelPartsOnlyCanceled(amount, rows, cancel_time) ==
    <<CanceledPart(amount, rows, cancel_time)>>

\* handle_cancel lines 422-445: the children of <canceled id=trans_id>
CancelParts(amount, rows, cancel_time) ==
    ExecutedParts(rows) \o <<CanceledPart(amount, rows, cancel_time)>>

(* ------------------- XMLHandler.handle_cancel ------------------------- *)
\* the writes of a successful cancel that do not depend on the order's side:
\* open_shares = 0, canceled_at = now, commit
CancelCommit(w, c) ==
    /\ orders' = [orders EXCEPT ![c.order_id].open_shares = 0,
                                ![c.order_id].canceled_at = clock]
    /\ refunded' = (c.order_id :> Abs(c.open_shares)) @@ refunded
    /\ locks' = ReleaseLocks(w)
    /\ ctx' = [ctx EXCEPT ![w] = IdleCtx]
    /\ reply' = [Canceled(c) EXCEPT
           !.body = CancelParts(c.amount, ExecutionsOf(c.order_id), clock)]

\* the checks of handle_cancel without the test of the order's owner
CancelErrorAnyOwner(a, id) ==
    IF id \notin DOMAIN orders THEN "Order not found"
    ELSE IF orders[id].open_shares = 0 THEN "Order already fully executed or canceled"
    ELSE IF orders[id].canceled_at # NoTime THEN "Order already canceled"
    ELSE ""

\* the text of the <error> of handle_cancel lines 354-376 for a cancel of
\* order id requested by account a, or "" if the cancel passes the checks
CancelError(a, id) ==
    IF id \notin DOMAIN orders THEN "Order not found"
    ELSE IF orders[id].account_id # a THEN "Permission denied"
    ELSE IF orders[id].open_shares = 0 THEN "Order already fully executed or canceled"
    ELSE IF orders[id].canceled_at # NoTime THEN "Order already canceled"
    ELSE ""

\* <cancel id=id/> of <transactions id=a>: SELECT the order FOR UPDATE and
\* run the checks of lines 354-376
HandleCancel(w, a, id) ==
    /\ ctx[w].pc = "idle"
    /\ a \in DOMAIN accounts
    /\ LockFree(w, "orders", id)
    /\ CancelError(a, id) = ""
    /\ locks' = locks \cup {Lock(w, "orders", id)}
    /\ ctx' = [ctx EXCEPT ![w] = [IdleCtx EXCEPT
           !.pc = "cancel_account", !.account_id = a, !.order_id = id,
           !.symbol = orders[id].symbol_name, !.amount = orders[id].amount,
           !.limit_price = orders[id].limit_price,
           !.open_shares = orders[id].open_shares]]
    /\ reply' = NoReply
    /\ UNCHANGED <<store, next_order_id, clock, books, history, book_at_call, objects>>

\* a refund of the open shares without their price
RefundShares(open_shares, limit_price) == Abs(open_shares)

\* handle_cancel lines 390-396: canceled_shares_amount * order.limit_price
RefundAmount(open_shares, limit_price) == Abs(open_shares) * limit_price

\* SELECT the account FOR UPDATE; a buy is refunded and the cancel commits
CancelAccount(w) ==
    LET c == ctx[w]
        refund_amount == RefundAmount(c.open_shares, c.limit_price)
    IN
    /\ c.pc = "cancel_account"
    /\ LockFree(w, "accounts", c.account_id)
    /\ IF c.amount > 0
       THEN /\ accounts' = [accounts EXCEPT ![c.account_id] = @ + refund_amount]
            /\ ledger' = [ledger EXCEPT ![c.account_id] = @ + refund_amount]
            /\ CancelCommit(w, c)
            /\ UNCHANGED <<positions>>
       ELSE /\ locks' = locks \cup {Lock(w, "accounts", c.account_id)}
            /\ ctx' = [ctx EXCEPT ![w].pc = "cancel_position"]
            /\ reply' = NoReply
            /\ UNCHANGED <<accounts, positions, orders, refunded, ledger>>
    /\ UNCHANGED <<symbols, executions, next_order_id, clock, books, issued, funded,
                   book_at_call, objects>>

\* a sell: SELECT the position FOR UPDATE, return the shares (or create the
\* position), and the cancel commits
CancelPosition(w) ==
    LET c == ctx[w]
        return_shares == Abs(c.open_shares)
    IN
    /\ c.pc = "cancel_position"
    /\ \/ \E i \in PositionRows(c.account_id, c.symbol) :
            /\ LockFree(w, "positions", i)
            /\ positions' = [positions EXCEPT ![i].amount = @ + return_shares]
       \/ /\ PositionRows(c.account_id, c.symbol) = {}
          /\ positions' = Append(positions,
                 [account_id |-> c.account_id, symbol_name |-> c.symbol,
                  amount |-> return_shares])
    /\ CancelCommit(w, c)
    /\ UNCHANGED <<accounts, symbols, executions, next_order_id, clock, books,
                   ledger, issued, funded, book_at_call, objects>>

(* ------------------- requests that are rejected ----------------------- *)
\* handle_transactions lines 97-109: the account of the <transactions> tag
\* does not exist; each child gets an <error> that copies its attributes
TransactionsNoAccount(w, a, child) ==
    /\ ctx[w].pc = "idle"
    /\ a \notin DOMAIN accounts
    /\ reply' = [child EXCEPT !.tag = "error", !.account_id = a,
                              !.error = "Account not found"]
    /\ UNCHANGED <<store, next_order_id, clock, locks, books, ctx, history,
                   book_at_call, objects>>

\* an account-level failure that answers the first child only
AccountNotFoundFirstOnly(a, children) ==
    <<[children[1] EXCEPT !.tag = "error", !.account_id = a,
                          !.error = "Account not found"]>>

\* handle_transactions lines 102-108: one <error> per child, in the order of
\* the children, each with the attributes of its child and the error text
AccountNotFoundErrors(a, children) ==
    [k \in 1 .. Len(children) |->
        [children[k] EXCEPT !.tag = "error", !.account_id = a,
                            !.error = "Account not found"]]

\* handle_transactions lines 97-109 for a request of several children; the
\* request and its results stay on record until the next request
HandleTransactionsNoAccount(w, a, children) ==
    /\ ctx[w].pc = "idle"
    /\ a \notin DOMAIN accounts
    /\ ctx' = [ctx EXCEPT ![w] = [IdleCtx EXCEPT !.account_id = a,
                  !.transactions = children,
                  !.results = AccountNotFoundErrors(a, children)]]
    /\ reply' = ctx'[w].results[Len(ctx'[w].results)]
    /\ UNCHANGED <<store, next_order_id, clock, locks, books, history, book_at_call, objects>>

\* place_order lines 208-214: a buy whose cost exceeds the balance returns
\* "Insufficient funds" from inside the session scope, which commits nothing
InsufficientFunds(w, a, s, amount, limit_price) ==
    /\ ctx[w].pc = "idle"
    /\ a \in DOMAIN accounts
    /\ LockFree(w, "accounts", a)
    /\ amount > 0
    /\ ~SufficientFunds(accounts[a], amount * limit_price)
    /\ reply' = OrderError([IdleCtx EXCEPT !.account_id = a, !.symbol = s,
                               !.amount = amount, !.limit_price = limit_price],
                           "Insufficient funds")
    /\ UNCHANGED <<store, next_order_id, clock, locks, books, ctx, history,
                   book_at_call, objects>>

\* place_order lines 232-250 for a buy of a symbol that is not in the symbols
\* table: the INSERT of create_order's flush takes an id from the sequence
\* and violates the foreign key orders.symbol_name -> symbols.name; the
\* except of place_order makes the error, session_scope rolls back
PlaceOrderUnknownSymbol(w, a, s, amount, limit_price) ==
    /\ ctx[w].pc = "idle"
    /\ a \in DOMAIN accounts
    /\ next_order_id <= MaxOrders
    /\ LockFree(w, "accounts", a)
    /\ amount > 0
    /\ SufficientFunds(accounts[a], amount * limit_price)
    /\ s \notin symbols
    /\ next_order_id' = next_order_id + 1
    /\ reply' = OrderError([IdleCtx EXCEPT !.account_id = a, !.symbol = s,
                               !.amount = amount, !.limit_price = limit_price],
                           "Internal server error")
    /\ UNCHANGED <<store, clock, locks, books, ctx, history, book_at_call, objects>>

\* handle_cancel: the order row is selected FOR UPDATE, a check fails, and
\* the return leaves the session scope, whose commit writes nothing
CancelRejected(w, a, id) ==
    /\ ctx[w].pc = "idle"
    /\ a \in DOMAIN accounts
    /\ LockFree(w, "orders", id)
    /\ CancelError(a, id) # ""
    /\ reply' = CancelErrorElem(a, id, CancelError(a, id))
    /\ UNCHANGED <<store, next_order_id, clock, locks, books, ctx, history,
                   book_at_call, objects>>

(* ------------------- XMLHandler._process_query ------------------------ *)
\* the checks of _process_query without the test of the order's owner
QueryErrorAnyOwner(a, id) ==
    IF id \notin DOMAIN orders THEN "Order not found" ELSE ""

\* _process_query lines 209-217: the text of the <error> of a query of order
\* id by account a ("Permission denied: Order belongs to another account"
\* in full), or "" if the query passes the checks
QueryError(a, id) ==
    IF id \notin DOMAIN orders THEN "Order not found"
    ELSE IF orders[id].account_id # a THEN "Permission denied"
    ELSE ""

\* <query id=id/> of <transactions id=a>: the order and its executions are
\* read with plain SELECTs in one session, whose commit writes nothing
Query(w, a, id) ==
    /\ ctx[w].pc = "idle"
    /\ a \in DOMAIN accounts
    /\ reply' = IF QueryError(a, id) # ""
                THEN CancelErrorElem(a, id, QueryError(a, id))
                ELSE Status(a, id, StatusParts(orders[id], ExecutionsOf(id)))
    /\ UNCHANGED <<store, next_order_id, clock, locks, books, ctx, history,
                   book_at_call, objects>>

(* ------------------- store errors ------------------------------------- *)
\* session_scope's except branch: rollback, and the except of place_order or
\* handle_cancel makes the result. The store's rows are as committed, the
\* locks are released, the in-memory book stays as match_orders left it.
\* place_order has set success = True before the scope's commit runs, so an
\* exception raised by the commit is answered with <opened>.
Rollback(w) ==
    LET c == ctx[w] IN
    /\ locks' = ReleaseLocks(w)
    /\ ctx' = [ctx EXCEPT ![w] = IdleCtx]
    /\ reply' = IF c.pc \in {"cancel_account", "cancel_position"}
                THEN CancelErrorElem(c.account_id, c.order_id, "Internal server error")
                ELSE IF c.pc = "commit" THEN Opened(c)
                ELSE OrderError(c, "Internal server error")
    /\ book_at_call' = [book_at_call EXCEPT ![w] = NoBook]
    /\ UNCHANGED <<store, next_order_id, clock, books, history, objects>>

\* the store raises an exception in a statement of a placement after its
\* reservation, or in its commit
StoreError(w) ==
    /\ ctx[w].pc \in {"match", "fill_orders", "fill_position", "commit"}
    /\ Rollback(w)

\* the row locks the next statement of worker w's session has to take
Wanted(w) ==
    LET c == ctx[w] IN
    IF c.pc \in {"reserve_position", "cancel_position"}
    THEN {<<"positions", i>> : i \in PositionRows(c.account_id, c.symbol)}
    ELSE IF c.pc \in {"match", "commit"} /\ c.flush_account # 0
    THEN {<<"accounts", c.flush_account>>}
    ELSE IF c.pc = "fill_orders" THEN {<<"orders", c.opposite>>}
    ELSE IF c.pc = "fill_position" /\ c.flush_position # 0
    THEN {<<"positions", c.flush_position>>}
    ELSE IF c.pc = "cancel_account" THEN {<<"accounts", c.account_id>>}
    ELSE {}

\* the sessions that hold a row lock worker w's next statement has to take
Holders(w) ==
    {v \in Workers \ {w} : \E l \in Wanted(w) : <<v, l[1], l[2]>> \in locks}

\* worker w's session waits for a row lock
Blocked(w) ==
    /\ Wanted(w) # {}
    /\ \A l \in Wanted(w) : ~LockFree(w, l[1], l[2])

RECURSIVE WaitClosure(_)
\* the sessions reached from S along "waits for a lock held by"
WaitClosure(S) ==
    LET T == S \cup UNION {Holders(v) : v \in {x \in S : Blocked(x)}}
    IN  IF T = S THEN S ELSE WaitClosure(T)

\* worker w's session is part of a cycle of sessions waiting for each other
InDeadlock(w) == Blocked(w) /\ w \in WaitClosure(Holders(w))

\* the store detects the cycle and aborts one of its sessions
DeadlockVictim(w) ==
    /\ InDeadlock(w)
    /\ Rollback(w)

(* ------------------- <create> requests, statement by statement --------- *)
\* A child of <create>, attrs says how its attributes parse: "ok"; "missing"
\* (an <account> without id or balance, a <symbol> without sym); "invalid"
\* (a balance or an amount float() does not accept).
\* <account id=a balance=balance/>
AccountItem(a, balance, attrs) ==
    [kind |-> "account", id |-> a, balance |-> balance, sym |-> "", amount |-> 0,
     attrs |-> attrs]

\* <symbol sym=s><account id=a>amount</account></symbol>
SymbolItem(s, a, amount, attrs) ==
    [kind |-> "symbol", id |-> a, balance |-> 0, sym |-> s, amount |-> amount,
     attrs |-> attrs]

\* <error id=a>text</error> and <error sym=s id=a>text</error> of handle_create
CreateErrorElem(a, s, error_msg) ==
    [NoReply EXCEPT !.tag = "error", !.account_id = a, !.sym = s, !.error = error_msg]

\* process_request line 38: <results><error>Internal server error: ...</error>
\* </results>, the whole reply of a request whose handler raised
InternalServerError == [NoReply EXCEPT !.tag = "error", !.error = "Internal server error"]

\* the child the loop of handle_create is at
Child(c) == c.request[c.child]

\* process_request line 27: a <create> request arrives at an idle worker
HandleCreate(w, request) ==
    /\ ctx[w].pc = "idle"
    /\ ctx' = [ctx EXCEPT ![w] = [IdleCtx EXCEPT !.pc = "create", !.request = request,
                                                 !.child = 1]]
    /\ reply' = NoReply
    /\ UNCHANGED <<store, next_order_id, clock, locks, books, history, book_at_call, objects>>

\* the loop of handle_create appends a result element and moves to the next
\* child
AppendResult(w, c, elem) ==
    /\ ctx' = [ctx EXCEPT ![w] = [IdleCtx EXCEPT !.pc = "create",
                  !.request = c.request, !.child = c.child + 1,
                  !.results = Append(c.results, elem)]]
    /\ reply' = elem

\* an exception leaves handle_create: the session is rolled back and
\* process_request answers the request with one error element
RaiseInCreate(w, c) ==
    /\ ctx' = [ctx EXCEPT ![w] = [IdleCtx EXCEPT !.request = c.request,
                  !.child = c.child, !.results = <<InternalServerError>>]]
    /\ reply' = InternalServerError

\* handle_create lines 49-52 and 64-67: a child with a missing attribute is
\* passed over with continue
CreateSkip(w) ==
    LET c == ctx[w] IN
    /\ c.pc = "create"
    /\ c.child <= Len(c.request)
    /\ Child(c).attrs = "missing"
    /\ ctx' = [ctx EXCEPT ![w].child = @ + 1]
    /\ reply' = NoReply
    /\ UNCHANGED <<store, next_order_id, clock, locks, books, history, book_at_call, objects>>

\* handle_create lines 53 and 71: float() raises ValueError
CreateInvalid(w) ==
    LET c == ctx[w] IN
    /\ c.pc = "create"
    /\ c.child <= Len(c.request)
    /\ Child(c).attrs = "invalid"
    /\ RaiseInCreate(w, c)
    /\ UNCHANGED <<store, next_order_id, clock, locks, books, history, book_at_call, objects>>

\* Database.create_account lines 53-59: SELECT the account; answer "Account
\* already exists" or add the new Account to the session
CreateAccountQuery(w) ==
    LET c == ctx[w]
        item == Child(c)
    IN
    /\ c.pc = "create"
    /\ c.child <= Len(c.request)
    /\ item.kind = "account"
    /\ item.attrs = "ok"
    /\ IF item.id \in DOMAIN accounts
       THEN AppendResult(w, c, CreateErrorElem(item.id, "", "Account already exists"))
       ELSE /\ ctx' = [ctx EXCEPT ![w].pc = "create_account",
                                  ![w].new_accounts = (item.id :> item.balance)]
            /\ reply' = NoReply
    /\ UNCHANGED <<store, next_order_id, clock, locks, books, history, book_at_call, objects>>

\* the commit of create_account's session_scope: INSERT the account; the
\* primary key raises IntegrityError if the id has been committed meanwhile
CreateAccountCommit(w) ==
    LET c == ctx[w]
        item == Child(c)
    IN
    /\ c.pc = "create_account"
    /\ IF item.id \in DOMAIN accounts
       THEN /\ RaiseInCreate(w, c)
            /\ UNCHANGED <<accounts, ledger, funded>>
       ELSE /\ accounts' = accounts @@ c.new_accounts
            /\ ledger' = ledger @@ c.new_accounts
            /\ funded' = funded + item.balance
            /\ AppendResult(w, c, Created(item.id, ""))
    /\ UNCHANGED <<symbols, positions, orders, executions, next_order_id, clock, locks,
                   books, refunded, issued, book_at_call, objects>>

\* Database.create_symbol lines 66-84: SELECT the account, the symbol and the
\* first position of the pair with plain reads; credit the position in the
\* session or add a new one
CreateSymbolQuery(w) ==
    LET c == ctx[w]
        item == Child(c)
        a == item.id
        s == item.sym
        n == [c EXCEPT !.pc = "create_symbol",
                       !.new_symbols = IF s \in symbols THEN {} ELSE {s}]
    IN
    /\ c.pc = "create"
    /\ c.child <= Len(c.request)
    /\ item.kind = "symbol"
    /\ item.attrs = "ok"
    /\ Len(issued[s]) < MaxCredits
    /\ IF a \notin DOMAIN accounts
       THEN AppendResult(w, c, CreateErrorElem(a, s, "Account does not exist"))
       ELSE /\ \/ /\ PositionRows(a, s) = {}
                  /\ ctx' = [ctx EXCEPT ![w] = [n EXCEPT !.new_positions =
                         <<[account_id |-> a, symbol_name |-> s,
                            amount |-> item.amount]>>]]
               \/ \E i \in PositionRows(a, s) :
                    ctx' = [ctx EXCEPT ![w] = [n EXCEPT !.position =
                        (i :> [val |-> positions[i].amount + item.amount,
                               delta |-> item.amount])]]
            /\ reply' = NoReply
    /\ UNCHANGED <<store, next_order_id, clock, locks, books, history, book_at_call, objects>>

\* the commit of create_symbol's session_scope: INSERT the symbol (its primary
\* key raises IntegrityError if the name has been committed meanwhile),
\* UPDATE the position to the amount computed in the session or INSERT the
\* new position
CreateSymbolCommit(w) ==
    LET c == ctx[w]
        item == Child(c)
    IN
    /\ c.pc = "create_symbol"
    /\ \A i \in DOMAIN c.position : LockFree(w, "positions", i)
    /\ IF c.new_symbols \cap symbols # {}
       THEN /\ RaiseInCreate(w, c)
            /\ UNCHANGED <<symbols, positions, issued>>
       ELSE /\ symbols' = symbols \cup c.new_symbols
            /\ positions' = [i \in 1 .. Len(positions) |->
                   IF i \in DOMAIN c.position
                   THEN [positions[i] EXCEPT !.amount = c.position[i].val]
                   ELSE positions[i]] \o c.new_positions
            /\ issued' = [issued EXCEPT ![item.sym] =
                   Append(@, [account_id |-> item.id, amount |-> item.amount])]
            /\ AppendResult(w, c, Created(item.id, item.sym))
    /\ UNCHANGED <<accounts, orders, executions, next_order_id, clock, locks, books,
                   refunded, ledger, funded, book_at_call, objects>>

\* handle_create line 85: the loop is over and the <results> tree is returned;
\* the request and its results stay on record until the next request
CreateDone(w) ==
    LET c == ctx[w] IN
    /\ c.pc = "create"
    /\ c.child > Len(c.request)
    /\ ctx' = [ctx EXCEPT ![w].pc = "idle"]
    /\ reply' = NoReply
    /\ UNCHANGED <<store, next_order_id, clock, locks, books, history, book_at_call, objects>>

\* one step of a <create> request in progress
CreateStep(w) ==
    \/ CreateSkip(w)
    \/ CreateInvalid(w)
    \/ CreateAccountQuery(w)
    \/ CreateAccountCommit(w)
    \/ CreateSymbolQuery(w)
    \/ CreateSymbolCommit(w)
    \/ CreateDone(w)

(* ------------------- worker processes --------------------------------- *)
\* the empty heaps MatchingEngine.__init__ starts a book with
EmptyBook == [s \in Symbols |-> {}]

\* server.py run(): a worker process that has died between two requests is
\* replaced by a fork that calls worker_process_connections, which constructs
\* a Database, a MatchingEngine and an XMLHandler; the constructor of the
\* MatchingEngine sets buy_orders and sell_orders to empty maps and reads
\* nothing from the store
WorkerStart(w) ==
    /\ ctx[w].pc = "idle"
    /\ buy_orders' = [buy_orders EXCEPT ![w] = EmptyBook]
    /\ sell_orders' = [sell_orders EXCEPT ![w] = EmptyBook]
    /\ reply' = NoReply
    /\ UNCHANGED <<store, next_order_id, clock, locks, ctx, history, book_at_call, objects>>

(* ------------------- specifications ----------------------------------- *)
\* worker processes serving connections concurrently
Next ==
    \E w \in Workers :
        \/ \E a \in AccountIds, b \in Balances : CreateAccount(w, a, b)
        \/ \E s \in Symbols, a \in AccountIds, n \in SymbolAmounts :
               CreateSymbol(w, s, a, n)
        \/ \E a \in AccountIds, s \in Symbols, n \in OrderAmounts, p \in LimitPrices :
               \E t \in Ticks : PlaceOrder(w, a, s, n, p, t)
        \/ ReservePosition(w)
        \/ MatchOrders(w)
        \/ UpdatePosition(w)
        \/ UpdateAccountBalance(w)
        \/ Commit(w)
        \/ \E a \in AccountIds, id \in OrderIds : HandleCancel(w, a, id)
        \/ CancelAccount(w)
        \/ CancelPosition(w)
        \/ DeadlockVictim(w)

Spec == Init /\ [][Next]_vars

\* one worker process serving one connection at a time, with any accepted
\* attribute values and a wall clock that may not advance between two orders
SeqNext ==
    \E w \in SeqWorkers :
        \/ \E a \in AccountIds, b \in SeqBalances : CreateAccount(w, a, b)
        \/ \E s \in Symbols, a \in AccountIds, n \in SeqSymbolAmounts :
               CreateSymbol(w, s, a, n)
        \/ \E a \in AccountIds, s \in Symbols, n \in SeqOrderAmounts, p \in LimitPrices :
               \E t \in SeqTicks : PlaceOrder(w, a, s, n, p, t)
        \/ ReservePosition(w)
        \/ MatchOrders(w)
        \/ UpdatePosition(w)
        \/ UpdateAccountBalance(w)
        \/ Commit(w)
        \/ \E a \in AccountIds, id \in OrderIds : HandleCancel(w, a, id)
        \/ CancelAccount(w)
        \/ CancelPosition(w)

SeqSpec == Init /\ [][SeqNext]_vars

\* the children of a <transactions> request, as the attributes an <error>
\* element copies from them
OrderChildren ==
    {[NoReply EXCEPT !.sym = s, !.amount = n, !.limit = p] :
        s \in Symbols, n \in OrderAmounts, p \in LimitPrices}

CancelChildren == {[NoReply EXCEPT !.id = id] : id \in OrderIds}

\* one worker process serving one connection: every request child and its
\* result element, the rejected ones included, and store errors
HandlerNext ==
    \E w \in SeqWorkers :
        \/ \E a \in AccountIds, b \in Balances : CreateAccount(w, a, b)
        \/ \E s \in Symbols, a \in AccountIds, n \in SymbolAmounts :
               CreateSymbol(w, s, a, n)
        \/ \E a \in AccountIds, s \in Symbols, n \in OrderAmounts, p \in LimitPrices :
               \E t \in Ticks : PlaceOrder(w, a, s, n, p, t)
        \/ ReservePosition(w)
        \/ MatchOrders(w)
        \/ UpdatePosition(w)
        \/ UpdateAccountBalance(w)
        \/ Commit(w)
        \/ \E a \in AccountIds, id \in OrderIds : HandleCancel(w, a, id)
        \/ CancelAccount(w)
        \/ CancelPosition(w)
        \/ \E a \in AccountIds, child \in OrderChildren \cup CancelChildren :
               TransactionsNoAccount(w, a, child)
        \/ \E a \in AccountIds, s \in Symbols, n \in OrderAmounts, p \in LimitPrices :
               InsufficientFunds(w, a, s, n, p)
        \/ \E a \in AccountIds, id \in OrderIds : CancelRejected(w, a, id)
        \/ StoreError(w)
        \/ WorkerStart(w)
        \/ \E a \in AccountIds, id \in OrderIds : Query(w, a, id)
        \/ \E a \in AccountIds, s \in Symbols, n \in OrderAmounts, p \in LimitPrices :
               PlaceOrderUnknownSymbol(w, a, s, n, p)

HandlerSpec == Init /\ [][HandlerNext]_vars

\* the children a <create> request may have, well-formed or not
ValidItems ==
    {AccountItem(a, b, "ok") : a \in AccountIds, b \in CreateBalances}
    \cup {SymbolItem(s, a, n, "ok") : s \in Symbols, a \in AccountIds, n \in CreateAmounts}

BadItems ==
    {AccountItem(1, 0, "missing"), AccountItem(1, 0, "invalid"),
     SymbolItem("SYM", 1, 0, "invalid")}

\* the children of the requests of the concurrent create specification
CreditItems ==
    {AccountItem(a, b, "ok") : a \in AccountIds, b \in CreateBalances}
    \cup {SymbolItem(s, a, n, "ok") : s \in Symbols, a \in AccountIds, n \in SymbolAmounts}

\* worker processes serving <create> requests of one child concurrently
CreateNext ==
    \E w \in Workers :
        \/ \E item \in CreditItems : HandleCreate(w, <<item>>)
        \/ CreateAccountQuery(w)
        \/ CreateAccountCommit(w)
        \/ CreateSymbolQuery(w)
        \/ CreateSymbolCommit(w)
        \/ CreateDone(w)

CreateSpec == Init /\ [][CreateNext]_vars

\* str(account_id).isdigit() for an id written as a signed integer: "-1" is
\* not a sequence of decimal digits
IsDigit(account_id) == account_id >= 0

\* <account id="-1" balance="3"/>: an id that is not purely decimal digits
SignedIdItems == {AccountItem(-1, 3, "ok")}

\* the requests of the batch specification: up to MaxChildren children
Requests ==
    UNION {[1 .. n -> ValidItems \cup BadItems \cup SignedIdItems] :
              n \in 1 .. MaxChildren}

\* the <transactions> requests of the batch specification
TransactionRequests ==
    UNION {[1 .. n -> OrderChildren \cup CancelChildren] : n \in 1 .. MaxChildren}

\* one worker process serving <create> requests of several children and
\* <transactions> requests of accounts that do not exist
BatchNext ==
    \E w \in SeqWorkers :
        \/ \E request \in Requests : HandleCreate(w, request)
        \/ CreateStep(w)
        \/ \E a \in AccountIds, children \in TransactionRequests :
               HandleTransactionsNoAccount(w, a, children)

BatchSpec == Init /\ [][BatchNext]_vars

(* ------------------- derived quantities ------------------------------- *)
\* the sum of the shares of the Execution rows of an order
ExecutedShares(id) ==
    LET rows == {k \in 1 .. Len(executions) : executions[k].order_id = id}
    IN  SumOver(rows, [k \in rows |-> executions[k].shares])

RefundedShares(id) == IF id \in DOMAIN refunded THEN refunded[id] ELSE 0

\* open: nonzero open amount, not canceled
IsOpen(id) ==
    /\ id \in DOMAIN orders
    /\ orders[id].open_shares # 0
    /\ orders[id].canceled_at = NoTime

TotalBalance == SumOver(DOMAIN accounts, accounts)

ReservedMoney ==
    LET buys == {id \in DOMAIN orders : IsOpen(id) /\ orders[id].amount > 0}
    IN  SumOver(buys, [id \in buys |-> Abs(orders[id].open_shares) * orders[id].limit_price])

TotalShares(s) ==
    LET rows == {i \in 1 .. Len(positions) : positions[i].symbol_name = s}
    IN  SumOver(rows, [i \in rows |-> positions[i].amount])

ReservedShares(s) ==
    LET sells == {id \in DOMAIN orders :
                     IsOpen(id) /\ orders[id].amount < 0 /\ orders[id].symbol_name = s}
    IN  SumOver(sells, [id \in sells |-> Abs(orders[id].open_shares)])

InPlaceOrder(w) ==
    ctx[w].pc \in {"reserve_position", "match", "fill_orders", "fill_position", "commit"}

\* the open amount of an order as worker w's session sees it
SessionOpen(w, id) ==
    IF id \in DOMAIN ctx[w].order_open THEN ctx[w].order_open[id]
    ELSE IF id = ctx[w].opposite /\ ctx[w].pc = "fill_orders" THEN ctx[w].opposite_open
    ELSE orders[id].open_shares

\* the open orders of the other side of the order worker w is placing
OpenOpposite(w) ==
    {id \in DOMAIN orders :
        /\ orders[id].symbol_name = ctx[w].symbol
        /\ orders[id].canceled_at = NoTime
        /\ SessionOpen(w, id) # 0
        /\ (orders[id].amount > 0) # (ctx[w].amount > 0)}

\* order x has priority over order y of the same side
HasPriority(x, y) ==
    LET ox == orders[x]
        oy == orders[y]
    IN  \/ IF ox.amount > 0 THEN ox.limit_price > oy.limit_price
           ELSE ox.limit_price < oy.limit_price
        \/ /\ ox.limit_price = oy.limit_price
           /\ \/ ox.created_at < oy.created_at
              \/ ox.created_at = oy.created_at /\ x < y

\* the order worker w is placing crosses the stored order id
Crosses(w, id) ==
    IF ctx[w].amount > 0 THEN ctx[w].limit_price >= orders[id].limit_price
    ELSE ctx[w].limit_price <= orders[id].limit_price

(* ------------------- claims ------------------------------------------- *)
\* C1: a cancel of an order appears entirely before or entirely after every
\* fill on it: no order ends canceled with a nonzero open amount, and the
\* shares its cancel refunded or returned plus the shares its fills executed
\* never exceed its original amount (no share is both refunded and executed).
CancelAtomicWithFills ==
    \A id \in DOMAIN orders :
        /\ orders[id].canceled_at # NoTime => orders[id].open_shares = 0
        /\ RefundedShares(id) + ExecutedShares(id) <= Abs(orders[id].amount)

\* C2: price-time priority: when a placement fills against an opposite order
\* M, no other open opposite order of the symbol has priority over M; and a
\* new order is rested only if no open opposite order crosses it.
PriceTimePriority ==
    [][\A w \in Workers :
        /\ (ctx[w].pc = "match" /\ ctx'[w].pc = "fill_orders") =>
               \A id \in OpenOpposite(w) : ~HasPriority(id, ctx'[w].opposite)
        /\ (ctx[w].pc # "commit" /\ ctx'[w].pc = "commit"
                /\ ctx'[w].open_shares # 0) =>
               \A id \in DOMAIN orders :
                   (/\ orders[id].symbol_name = ctx'[w].symbol
                    /\ orders[id].canceled_at = NoTime
                    /\ (orders[id].amount > 0) # (ctx'[w].amount > 0)
                    /\ (IF id \in DOMAIN ctx'[w].order_open
                        THEN ctx'[w].order_open[id] ELSE orders[id].open_shares) # 0)
                   => IF ctx'[w].amount > 0
                      THEN ctx'[w].limit_price < orders[id].limit_price
                      ELSE ctx'[w].limit_price > orders[id].limit_price]_vars

\* C3: every fill executes at the limit price of the order inserted first
\* (earlier created_at, the smaller id on equal created_at), that is the
\* resting order's, and the two Execution rows of a fill carry that price.
FillsAtRestingPrice ==
    \A k \in 1 .. Len(executions) :
        k % 2 = 1 =>
            LET x == executions[k].order_id
                y == executions[k + 1].order_id
                first == IF \/ orders[x].created_at < orders[y].created_at
                            \/ /\ orders[x].created_at = orders[y].created_at
                               /\ x < y
                         THEN x ELSE y
            IN  /\ executions[k].price = orders[first].limit_price
                /\ executions[k + 1].price = orders[first].limit_price

\* C4: balance updates of one account are serialized: every committed balance
\* is the initial balance plus the sum of the committed deltas.
BalanceUpdatesNotLost ==
    \A a \in DOMAIN accounts : accounts[a] = ledger[a]

\* C5: per-symbol mutual exclusion: at most one place_order of a symbol is
\* inside its reserve / match / book-mutation region, across all workers.
SymbolMutualExclusion ==
    \A w1, w2 \in Workers :
        (w1 # w2 /\ InPlaceOrder(w1) /\ InPlaceOrder(w2)) =>
            ctx[w1].symbol # ctx[w2].symbol

\* C6: order accounting identity: |original amount| = |open amount| +
\* executed shares + shares refunded or returned by the cancel.
OrderAccountingIdentity ==
    \A id \in DOMAIN orders :
        Abs(orders[id].amount) =
            Abs(orders[id].open_shares) + ExecutedShares(id) + RefundedShares(id)

\* C7: conservation of shares: positions plus the open amounts of the open
\* sell orders of a symbol change only by create_symbol.
SharesConserved ==
    \A s \in Symbols : TotalShares(s) + ReservedShares(s) = IssuedShares(s)

\* C8: conservation of money: balances plus the reservations of the open buy
\* orders never exceed the money the accounts were created with.
MoneyNotCreated ==
    TotalBalance + ReservedMoney <= funded

\* C9: every account's balance is >= 0.
BalancesNonNegative ==
    \A a \in DOMAIN accounts : accounts[a] >= 0

\* C10: every position's amount is >= 0.
PositionsNonNegative ==
    \A i \in 1 .. Len(positions) : positions[i].amount >= 0

\* the order ids of the entries of worker w's book, both sides, all symbols
InBook(w) ==
    UNION {{t[3] : t \in buy_orders[w][s] \cup sell_orders[w][s]} : s \in Symbols}

\* C11: in every committed state the shares of an order's Execution rows sum
\* to at most |original amount|, and to exactly |original amount| if and only
\* if the order is fully executed (open amount 0 and canceled_at unset).
ExecutionsBounded ==
    \A id \in DOMAIN orders :
        /\ ExecutedShares(id) <= Abs(orders[id].amount)
        /\ (ExecutedShares(id) = Abs(orders[id].amount)) <=>
               (orders[id].open_shares = 0 /\ orders[id].canceled_at = NoTime)

BookIffOpen ==
    \A w \in SeqWorkers :
        ctx[w].pc = "idle" =>
            \A id \in OrderIds : (id \in InBook(w)) <=> IsOpen(id)

\* the error texts of a placement that fails its reservation
ReservationErrors == {"Account not found", "Insufficient funds", "Insufficient shares"}

\* C14: a placement that fails its reservation (account absent, buy with
\* balance < |amount| * limit, sell with no position or position < |amount|)
\* is answered with an error that carries no order id and leaves every
\* balance, position, order, execution and book entry unchanged; a buy is
\* rejected for funds only if its cost exceeds the balance, so a cost equal
\* to the balance is not rejected.
FailedReservationChangesNothing ==
    [][(reply'.tag = "error" /\ reply'.sym # "" /\ reply'.error \in ReservationErrors) =>
          LET a == reply'.account_id
              rows == PositionRows(a, reply'.sym)
          IN  /\ reply'.id = NoOrder
              /\ UNCHANGED <<store, books>>
              /\ reply'.error = "Account not found" => a \notin DOMAIN accounts
              /\ reply'.error = "Insufficient funds" =>
                     /\ reply'.amount > 0
                     /\ accounts[a] < reply'.amount * reply'.limit
              /\ reply'.error = "Insufficient shares" =>
                     /\ reply'.amount <= 0
                     /\ \/ rows = {}
                        \/ \E i \in rows : positions[i].amount < Abs(reply'.amount)]_vars

\* a buy was just rejected with "Insufficient funds" by an account that has
\* already placed an order
FailedReservationWitness ==
    /\ reply.tag = "error"
    /\ reply.error = "Insufficient funds"
    /\ \E id \in DOMAIN orders : orders[id].account_id = reply.account_id

\* the error texts of a cancel that fails a check of handle_cancel
CancelErrors ==
    {"Order not found", "Permission denied",
     "Order already fully executed or canceled", "Order already canceled"}

\* C18: a cancel of an order that is missing, already canceled, fully
\* executed or owned by another account is answered with an error and changes
\* no balance, position, order or execution; a cancel succeeds only on an
\* open order of the requester that no cancel has refunded before, so a
\* second cancel of the same order refunds nothing.
RejectedCancelChangesNothing ==
    [][/\ (reply'.tag = "error" /\ reply'.error \in CancelErrors) => UNCHANGED store
       /\ \A w \in Workers, a \in AccountIds, id \in OrderIds :
              (/\ ctx[w].pc = "idle"
               /\ ctx'[w].pc = "cancel_account"
               /\ ctx'[w].account_id = a
               /\ ctx'[w].order_id = id) =>
                  /\ IsOpen(id)
                  /\ orders[id].account_id = a
                  /\ id \notin DOMAIN refunded
       /\ \A id \in DOMAIN refunded :
              /\ id \in DOMAIN refunded' /\ refunded'[id] = refunded[id]
              /\ ~IsOpen(id)]_vars

\* the same order was just canceled a second time and the cancel rejected
RejectedCancelWitness ==
    /\ reply.tag = "error"
    /\ reply.error = "Order already fully executed or canceled"
    /\ reply.id \in DOMAIN refunded

\* C15: when a store error ends a placement after its reservation, the store
\* holds the rows it held before place_order was called, the worker's order
\* book is the book it had when place_order was called, and the client gets
\* an error element for the order.
RollbackRestoresPlacement ==
    [][\A w \in Workers :
          (/\ ctx[w].pc \in {"match", "fill_orders", "fill_position", "commit"}
           /\ ctx'[w].pc = "idle"
           /\ ctx[w].order_id \notin DOMAIN orders') =>
              /\ UNCHANGED store
              /\ <<buy_orders'[w], sell_orders'[w]>> = book_at_call[w]
              /\ reply'.tag = "error"]_vars

\* the shares an account holds of a symbol in a positions table
PositionTotal(table, a, s) ==
    LET rows == {i \in 1 .. Len(table) :
                    table[i].account_id = a /\ table[i].symbol_name = s}
    IN  SumOver(rows, [i \in rows |-> table[i].amount])

\* C16: the fills of a committed placement do exactly this: each fill of q
\* shares at price p appends one Execution(q, p) to the new order and one to
\* the resting order, |open amount| of both decreases by q, the seller's
\* balance increases by q * p, the buyer's position increases by q; the only
\* other change is the placer's reservation, made once at placement, and the
\* first fill takes q = min(|amount| of the new order, |open amount| of the
\* resting order).
FillEffects ==
    [][\A w \in Workers :
          (/\ ctx[w].pc = "commit"
           /\ ctx'[w].pc = "idle"
           /\ ctx[w].order_id \in DOMAIN orders') =>
              LET c == ctx[w]
                  ex == c.new_executions
                  K == {k \in 1 .. Len(ex) : k % 2 = 1}
                  seller(k) == IF c.amount > 0 THEN orders[ex[k + 1].order_id].account_id
                               ELSE c.account_id
                  buyer(k) == IF c.amount > 0 THEN c.account_id
                              ELSE orders[ex[k + 1].order_id].account_id
                  shares(S) == SumOver(S, [k \in S |-> ex[k].shares])
                  value(S) == SumOver(S, [k \in S |-> ex[k].shares * ex[k].price])
              IN  /\ executions' = executions \o ex
                  /\ \A k \in K :
                         /\ ex[k].order_id = c.order_id
                         /\ ex[k + 1].order_id \in DOMAIN orders
                         /\ ex[k + 1].shares = ex[k].shares
                         /\ ex[k + 1].price = ex[k].price
                  /\ K # {} =>
                         ex[1].shares = Min(Abs(c.amount),
                                            Abs(orders[ex[2].order_id].open_shares))
                  /\ Abs(orders'[c.order_id].open_shares) = Abs(c.amount) - shares(K)
                  /\ \A id \in DOMAIN orders :
                         /\ Abs(orders'[id].open_shares) =
                                Abs(orders[id].open_shares)
                                    - shares({k \in K : ex[k + 1].order_id = id})
                         /\ orders'[id].canceled_at = orders[id].canceled_at
                  /\ \A a \in DOMAIN accounts :
                         accounts'[a] =
                             accounts[a] + value({k \in K : seller(k) = a})
                                 - (IF a = c.account_id /\ c.amount > 0
                                    THEN c.amount * c.limit_price ELSE 0)
                  /\ \A a \in AccountIds :
                         PositionTotal(positions', a, c.symbol) =
                             PositionTotal(positions, a, c.symbol)
                                 + shares({k \in K : buyer(k) = a})
                                 - (IF a = c.account_id /\ c.amount < 0
                                    THEN Abs(c.amount) ELSE 0)]_vars

\* C17: a successful cancel of an open order with q = |open amount| credits
\* the owner's balance by q * limit if the order is a buy, or the owner's
\* position in the order's symbol by q if it is a sell, sets the open amount
\* to 0 and canceled_at, and changes no other row; for an order without
\* fills q is |original amount|, the amount its placement reserved.
CancelEffects ==
    [][\A w \in Workers :
          (/\ ctx[w].pc \in {"cancel_account", "cancel_position"}
           /\ ctx'[w].pc = "idle"
           /\ reply'.tag = "canceled") =>
              LET id == ctx[w].order_id
                  o == orders[id]
                  q == Abs(o.open_shares)
              IN  /\ q > 0
                  /\ ExecutedShares(id) = 0 => q = Abs(o.amount)
                  /\ orders'[id].canceled_at # NoTime
                  /\ orders' = [orders EXCEPT ![id].open_shares = 0,
                                              ![id].canceled_at = orders'[id].canceled_at]
                  /\ accounts' = [accounts EXCEPT ![o.account_id] =
                         @ + (IF o.amount > 0 THEN q * o.limit_price ELSE 0)]
                  /\ \A a \in AccountIds, s \in Symbols :
                         PositionTotal(positions', a, s) =
                             PositionTotal(positions, a, s)
                                 + (IF o.amount < 0 /\ a = o.account_id
                                       /\ s = o.symbol_name
                                    THEN q ELSE 0)
                  /\ Len(positions') = Len(positions)
                  /\ UNCHANGED <<symbols, executions>>]_vars

\* a buy at limit 2 was just canceled
CancelEffectsWitness ==
    /\ reply.tag = "canceled"
    /\ orders[reply.id].amount > 0
    /\ orders[reply.id].limit_price = 2

\* the Execution rows of an order in an executions table
ExecutionRows(table, id) == {k \in 1 .. Len(table) : table[k].order_id = id}

\* C19: filled and canceled are terminal: once an order has open amount 0 or
\* canceled_at set, no step changes its open amount or its canceled_at, or
\* appends an Execution to it.
TerminalOrdersFrozen ==
    [][\A id \in DOMAIN orders :
          (orders[id].open_shares = 0 \/ orders[id].canceled_at # NoTime) =>
              /\ orders'[id].open_shares = orders[id].open_shares
              /\ orders'[id].canceled_at = orders[id].canceled_at
              /\ ExecutionRows(executions', id) = ExecutionRows(executions, id)]_vars

\* C20: no two sessions wait for a row lock held by each other: no session
\* is part of a cycle of sessions waiting for row locks, so none is aborted as
\* a deadlock victim.
NoDeadlock ==
    \A w \in Workers : ~InDeadlock(w)

\* C21: when a worker process starts, at first or as the replacement of one
\* that died, its in-memory order book is rebuilt from the store and holds
\* exactly the open orders, so an order that rested before the restart is
\* still matched after it.
BookRebuiltAtStart ==
    [][\A w \in Workers :
          WorkerStart(w) =>
              \A id \in OrderIds : (id \in InBook(w)') <=> IsOpen(id)]_vars

\* the positions of the parts of one kind in the body of a result element
PartsOf(body, kind) == {k \in 1 .. Len(body) : body[k].part = kind}

\* C22: a query by the owner of an order reports exactly: one open part with
\* shares = |open amount| if and only if the open amount is nonzero and
\* canceled_at is unset; one executed part per Execution row of the order
\* with that row's shares and price; one canceled part with shares =
\* |original amount| - sum of the executed shares if and only if canceled_at
\* is set; the open part and the canceled part never appear together.
QueryReportsStatus ==
    [][\A w \in Workers :
          LET a == reply'.account_id
              id == reply'.id
          IN  (/\ id \in DOMAIN orders
               /\ orders[id].account_id = a
               /\ Query(w, a, id)) =>
                  LET o == orders[id]
                      b == reply'.body
                      opens == PartsOf(b, "open")
                      execs == PartsOf(b, "executed")
                      cancels == PartsOf(b, "canceled")
                      rows == ExecutionRows(executions, id)
                  IN  /\ reply'.tag = "status"
                      /\ opens \cup execs \cup cancels = 1 .. Len(b)
                      /\ Cardinality(opens) =
                             (IF o.open_shares # 0 /\ o.canceled_at = NoTime
                              THEN 1 ELSE 0)
                      /\ \A k \in opens : b[k].shares = Abs(o.open_shares)
                      /\ Cardinality(cancels) =
                             (IF o.canceled_at # NoTime THEN 1 ELSE 0)
                      /\ \A k \in cancels :
                             b[k].shares = Abs(o.amount) - ExecutedShares(id)
                      /\ \E f \in [execs -> rows] :
                             /\ \A x, y \in execs : f[x] = f[y] => x = y
                             /\ \A r \in rows : \E x \in execs : f[x] = r
                             /\ \A x \in execs :
                                    /\ b[x].shares = executions[f[x]].shares
                                    /\ b[x].price = executions[f[x]].price
                      /\ ~(opens # {} /\ cancels # {})]_vars

\* the owner's query has just reported an order with an executed part and a
\* canceled part
QueryReportsStatusWitness ==
    /\ reply.tag = "status"
    /\ orders[reply.id].account_id = reply.account_id
    /\ PartsOf(reply.body, "executed") # {}
    /\ PartsOf(reply.body, "canceled") # {}

\* C23: a query or a cancel of an order by an account that does not own it
\* is answered with a 'Permission denied' error that carries no status part
\* of the order, a cancel is carried out only for the owner, and no query,
\* answered or rejected, changes a balance, position, order, execution or
\* order-book entry.
OwnershipEnforced ==
    [][\A w \in Workers :
          LET a == reply'.account_id
              id == reply'.id
              notOwner == id \in DOMAIN orders /\ orders[id].account_id # a
              denied == /\ reply'.tag = "error"
                        /\ reply'.error = "Permission denied"
                        /\ reply'.body = <<>>
          IN  /\ (id \in OrderIds /\ a \in AccountIds /\ Query(w, a, id)) =>
                     /\ UNCHANGED <<store, books>>
                     /\ notOwner => denied
              /\ (id \in OrderIds /\ a \in AccountIds /\ notOwner
                      /\ CancelRejected(w, a, id)) =>
                     /\ denied
                     /\ UNCHANGED <<store, books>>
              /\ (ctx[w].pc = "idle" /\ ctx'[w].pc = "cancel_account") =>
                     orders[ctx'[w].order_id].account_id = ctx'[w].account_id
              /\ reply'.tag = "canceled" => orders[id].account_id = a]_vars

\* an account has just been denied the status of an order of another account
\* that has an executed part
OwnershipEnforcedWitness ==
    /\ reply.tag = "error"
    /\ reply.error = "Permission denied"
    /\ reply.id \in DOMAIN orders
    /\ ExecutedShares(reply.id) > 0

Handling(w, kind) ==
    /\ ctx[w].pc \in {"create", "create_account", "create_symbol"}
    /\ ctx[w].child <= Len(ctx[w].request)
    /\ Child(ctx[w]).kind = kind
    /\ Child(ctx[w]).attrs = "ok"

\* C25: accounts are created once: in any interleaving of create-account
\* requests every request is answered <created id=a/> or the inline <error
\* id=a>Account already exists</error>; it is answered <created> only if no
\* account a existed, and then the account has the balance of that request;
\* an error changes no account, and the balance of an existing account is not
\* changed by later create requests.
AccountsCreatedOnce ==
    [][/\ \A w \in Workers :
              (Handling(w, "account") /\ ctx'[w].results # ctx[w].results) =>
                  LET item == Child(ctx[w])
                  IN  \/ /\ reply' = Created(item.id, "")
                         /\ item.id \notin DOMAIN accounts
                         /\ accounts' = accounts @@ (item.id :> item.balance)
                      \/ /\ reply' = CreateErrorElem(item.id, "", "Account already exists")
                         /\ item.id \in DOMAIN accounts
                         /\ accounts' = accounts
       /\ \A a \in DOMAIN accounts :
              a \in DOMAIN accounts' /\ accounts'[a] = accounts[a]]_vars

\* C26: create_symbol(sym, account, amount) with an existing account and
\* amount > 0 is answered <created>, creates the symbol if absent and
\* increases the position of (account, sym) by amount and no other position
\* or balance; with a missing account it is answered 'Account does not exist'
\* and creates neither symbol nor position; with amount <= 0 it is rejected
\* and changes nothing.
CreateSymbolContract ==
    [][\A w \in Workers :
          (Handling(w, "symbol") /\ ctx'[w].results # ctx[w].results) =>
              LET item == Child(ctx[w])
                  a == item.id
                  s == item.sym
              IN  /\ a \notin DOMAIN accounts =>
                         /\ reply' = CreateErrorElem(a, s, "Account does not exist")
                         /\ UNCHANGED store
                  /\ item.amount <= 0 =>
                         /\ reply'.tag = "error"
                         /\ UNCHANGED store
                  /\ (a \in DOMAIN accounts /\ item.amount > 0) =>
                         /\ reply' = Created(a, s)
                         /\ symbols' = symbols \cup {s}
                         /\ \A a2 \in AccountIds, s2 \in Symbols :
                                PositionTotal(positions', a2, s2) =
                                    PositionTotal(positions, a2, s2)
                                        + (IF a2 = a /\ s2 = s THEN item.amount ELSE 0)
                         /\ UNCHANGED <<accounts, orders, executions>>]_vars

\* the committed credits of a pair minus its committed reservations: the
\* amounts of its symbol credits, the executed shares of its buy orders and
\* the shares its canceled sell orders returned, minus the shares its sell
\* orders reserved
CommittedShares(a, s) ==
    LET credits == {k \in 1 .. Len(issued[s]) : issued[s][k].account_id = a}
        mine == {id \in DOMAIN orders :
                    orders[id].account_id = a /\ orders[id].symbol_name = s}
        buys == {id \in mine : orders[id].amount > 0}
        sells == {id \in mine : orders[id].amount <= 0}
    IN  SumOver(credits, [k \in credits |-> issued[s][k].amount])
        + SumOver(buys, [id \in buys |-> ExecutedShares(id)])
        + SumOver(sells, [id \in sells |-> RefundedShares(id)])
        - SumOver(sells, [id \in sells |-> Abs(orders[id].amount)])

\* C27: positions are unique per (account, symbol): in every committed state
\* there is at most one position row for each pair, and its amount is the
\* sum of the pair's committed credits minus its committed reservations (no
\* credit is lost).
PositionsUniqueAndExact ==
    \A a \in AccountIds, s \in Symbols :
        /\ Cardinality(PositionRows(a, s)) <= 1
        /\ PositionRows(a, s) # {} =>
               PositionTotal(positions, a, s) = CommittedShares(a, s)

\* C28: the reply to a <create> request has exactly one result element per
\* child, in the order of the children: a child that fails (business rule,
\* missing or invalid attribute, store error) has an inline <error> of its
\* own, the children after it are handled and the elements of the children
\* before it are kept.
ResultPerChild ==
    \A w \in Workers :
        (ctx[w].pc = "idle" /\ ctx[w].request # <<>>) =>
            LET c == ctx[w] IN
            /\ Len(c.results) = Len(c.request)
            /\ \A k \in 1 .. Len(c.request) :
                   /\ c.results[k].tag \in {"created", "error"}
                   /\ c.request[k].attrs = "ok" =>
                          /\ c.results[k].account_id = c.request[k].id
                          /\ c.results[k].sym = c.request[k].sym
                   /\ c.request[k].attrs # "ok" => c.results[k].tag = "error"

\* C29: a <transactions> request whose account does not exist is answered
\* with exactly one error element per child, in the order of the children,
\* and changes no state: no order is created or canceled and no balance or
\* position changes.
NoAccountFailsEachChild ==
    [][\A w \in Workers :
          (ctx'[w].transactions # <<>> /\ ctx'[w] # ctx[w]) =>
              LET c == ctx'[w]
                  a == c.account_id
              IN  a \notin DOMAIN accounts =>
                      /\ Len(c.results) = Len(c.transactions)
                      /\ \A k \in 1 .. Len(c.transactions) :
                             /\ c.results[k].tag = "error"
                             /\ c.results[k].error = "Account not found"
                             /\ c.results[k].id = c.transactions[k].id
                             /\ c.results[k].sym = c.transactions[k].sym
                             /\ c.results[k].amount = c.transactions[k].amount
                             /\ c.results[k].limit = c.transactions[k].limit
                      /\ UNCHANGED <<store, books, next_order_id>>]_vars

\* a request of an order and a cancel for account 2, which does not exist
\* while account 1 holds a position, has just been answered
NoAccountFailsEachChildWitness ==
    \E w \in Workers :
        /\ Len(ctx[w].transactions) = 2
        /\ ctx[w].transactions[1].sym # ""
        /\ ctx[w].transactions[2].id # NoOrder
        /\ ctx[w].account_id = 2
        /\ reply.tag = "error"
        /\ reply.account_id = 2
        /\ positions # <<>>

\* C30: an order request with amount zero is rejected with an error: it is
\* not answered <opened>, no order row is created, and no balance, position
\* or order-book entry changes; so every stored order has a nonzero original
\* amount.
ZeroAmountRejected ==
    /\ \A id \in DOMAIN orders : orders[id].amount # 0
    /\ reply.tag = "opened" => reply.amount # 0

\* C31: a buy order for a symbol that was never created is not rejected on
\* that ground: if the account exists and has sufficient funds the order is
\* opened (given an id and stored); a sell for such a symbol fails with
\* 'Insufficient shares'.
UnknownSymbolBuyOpened ==
    [][(/\ reply'.tag \in {"opened", "error"}
        /\ reply'.sym # ""
        /\ reply'.sym \notin symbols
        /\ reply'.account_id \in DOMAIN accounts) =>
           LET cost == reply'.amount * reply'.limit
           IN  /\ (reply'.amount > 0 /\ accounts[reply'.account_id] >= cost) =>
                      /\ reply'.tag = "opened"
                      /\ reply'.id \in DOMAIN orders'
               /\ reply'.amount < 0 =>
                      /\ reply'.tag = "error"
                      /\ reply'.error = "Insufficient shares"]_vars

\* C32: create_account with an id that is not purely decimal digits fails
\* with 'Invalid id' and creates no account: every account in the store has
\* an id of decimal digits only, and no such request is answered <created>.
AccountIdsAreDigits ==
    /\ \A a \in DOMAIN accounts : IsDigit(a)
    /\ (reply.tag = "created" /\ reply.sym = "") => IsDigit(reply.account_id)

\* C33: in every committed state an order's open amount has the sign of its
\* original amount (or is 0) and |open amount| <= |original amount|, and
\* |open amount| never increases over the order's life.
OpenAmountShrinks ==
    [][\A id \in DOMAIN orders' :
          LET o == orders'[id] IN
          /\ o.amount > 0 => o.open_shares >= 0
          /\ o.amount < 0 => o.open_shares <= 0
          /\ Abs(o.open_shares) <= Abs(o.amount)
          /\ id \in DOMAIN orders =>
                 Abs(o.open_shares) <= Abs(orders[id].open_shares)]_vars


\* ---------------------------------------------------------------------
\* The per-connection loop of handle_client
\* ---------------------------------------------------------------------

\* what a client can send as one request: a length line and a payload
\*   "ok"          a decimal length and a payload of that length that parses
\*                 (a <create/> without children, answered by <results/>)
\*   "bad_length"  a length line int() rejects
\*   "truncated"   a decimal length and a shorter payload, then end of stream
\*   "non_utf8"    a full payload that is not UTF-8
\*   "bad_xml"     a full UTF-8 payload ElementTree cannot parse
Frames == {"ok", "bad_length", "truncated", "non_utf8", "bad_xml"}

\* what handle_client sends for a request, NoReply when it sends nothing:
\* the <results/> of a request without children, the plain line sent when
\* int() rejects the length line, or <results><error>...</error></results>
Response(frame) ==
    CASE frame = "ok" -> [NoReply EXCEPT !.tag = "results"]
      [] frame = "bad_length" ->
            [NoReply EXCEPT !.tag = "text",
                            !.error = "Error: Invalid message length format"]
      [] frame = "truncated" -> NoReply
      [] frame = "non_utf8" ->
            [NoReply EXCEPT !.tag = "results",
                            !.error = "Invalid UTF-8 encoding in XML"]
      [] frame = "bad_xml" ->
            [NoReply EXCEPT !.tag = "results", !.error = "Invalid XML format"]

\* a worker accepts a client and enters handle_client
Accept(w) ==
    /\ ctx[w].pc = "idle"
    /\ ctx[w].connection # "open"
    /\ ctx' = [ctx EXCEPT ![w] = [IdleCtx EXCEPT !.connection = "open"]]
    /\ UNCHANGED <<store, next_order_id, clock, locks, books, history, reply,
                   book_at_call, objects>>

\* one turn of the loop of handle_client: read a length line and a payload,
\* answer, and continue or leave the loop and close the socket; only the
\* truncated payload leaves the loop, by the end of stream the next read meets
HandleClient(w, frame) ==
    /\ ctx[w].pc = "idle"
    /\ ctx[w].connection = "open"
    /\ ctx[w].frames < MaxFrames
    /\ ctx' = [ctx EXCEPT ![w] =
                 [@ EXCEPT !.frame = frame,
                           !.frames = @ + 1,
                           !.replies = IF Response(frame) = NoReply THEN 0 ELSE 1,
                           !.connection = IF frame = "truncated" THEN "closed"
                                           ELSE "open"]]
    /\ reply' = IF Response(frame) = NoReply THEN reply ELSE Response(frame)
    /\ UNCHANGED <<store, next_order_id, clock, locks, books, history, book_at_call, objects>>

\* the client closes its end: the length line reads empty, the loop ends and
\* the socket is closed without a reply
ClientCloses(w) ==
    /\ ctx[w].pc = "idle"
    /\ ctx[w].connection = "open"
    /\ ctx' = [ctx EXCEPT ![w] = [@ EXCEPT !.connection = "closed"]]
    /\ UNCHANGED <<store, next_order_id, clock, locks, books, history, reply,
                   book_at_call, objects>>

ConnectionNext ==
    \E w \in Workers :
        \/ Accept(w)
        \/ \E frame \in Frames : HandleClient(w, frame)
        \/ ClientCloses(w)

\* the connections of the workers, each request an opaque frame
ConnectionSpec == Init /\ [][ConnectionNext]_vars

\* C34: on a connection, a request with a malformed length line or a
\* malformed payload is answered by one error reply and the connection is
\* then closed, so that no further request is read from it; a well-formed
\* request is answered by exactly one <results> reply
ConnectionProtocol ==
    [][\A w \in Workers :
          (ctx'[w].frames # ctx[w].frames /\ ctx'[w].frames > 0) =>
              /\ ctx'[w].replies = 1
              /\ reply'.tag = "results"
              /\ ctx'[w].frame \in Frames \ {"ok"} =>
                    /\ reply'.error # ""
                    /\ ctx'[w].connection = "closed"
              /\ ctx'[w].frame = "ok" => reply'.error = ""]_vars


\* C35: the book is never left crossed: in every committed state no open buy
\* order and open sell order of one symbol, through whichever connections
\* or workers they were placed, have buy limit >= sell limit.
BookNeverCrossed ==
    \A b \in DOMAIN orders : \A s \in DOMAIN orders :
        ( /\ IsOpen(b) /\ IsOpen(s)
          /\ orders[b].amount > 0 /\ orders[s].amount < 0
          /\ orders[b].symbol_name = orders[s].symbol_name )
        => orders[b].limit_price < orders[s].limit_price


\* C36: a committed placement whose limit does not cross the best open
\* opposite order of the book (or that finds none) creates no Execution,
\* changes no other order, changes no balance and no position other than
\* the placer's own reservation, and leaves the new order open with its
\* full amount in the book; the orders resting before it stay as they were.
NonCrossingPlacementRests ==
    [][\A w \in Workers :
          ( /\ ctx[w].pc = "commit" /\ ctx'[w].pc = "idle"
            /\ reply'.tag = "opened"
            /\ ctx[w].order_id \in DOMAIN orders' ) =>
              LET c == ctx[w]
                  opposite == IF c.amount > 0 THEN book_at_call[w][2][c.symbol]
                              ELSE book_at_call[w][1][c.symbol]
                  open == {t \in opposite : IsOpen(t[3])}
                  best == orders[HeapMin(open)[3]]
                  crosses == /\ open # {}
                             /\ IF c.amount > 0
                                THEN c.limit_price >= best.limit_price
                                ELSE c.limit_price <= best.limit_price
              IN  ~crosses =>
                    /\ executions' = executions
                    /\ \A id \in DOMAIN orders : orders'[id] = orders[id]
                    /\ orders'[c.order_id].open_shares = c.amount
                    /\ orders'[c.order_id].canceled_at = NoTime
                    /\ c.order_id \in InBook(w)'
                    /\ \A a \in DOMAIN accounts :
                          accounts'[a] =
                              IF a = c.account_id /\ c.amount > 0
                              THEN accounts[a] - c.amount * c.limit_price
                              ELSE accounts[a]
                    /\ Len(positions') = Len(positions)
                    /\ \A i \in DOMAIN positions :
                          positions'[i] =
                              IF /\ positions[i].account_id = c.account_id
                                 /\ positions[i].symbol_name = c.symbol
                                 /\ c.amount < 0
                              THEN [positions[i] EXCEPT !.amount = @ + c.amount]
                              ELSE positions[i]]_vars

\* a sell has just been opened above a resting buy: both are open in the
\* worker's book and nothing was executed
NonCrossingPlacementWitness ==
    /\ reply.tag = "opened" /\ reply.id = 2
    /\ IsOpen(1) /\ IsOpen(2)
    /\ orders[1].amount > 0 /\ orders[2].amount < 0
    /\ orders[1].limit_price < orders[2].limit_price
    /\ orders[2].open_shares = orders[2].amount
    /\ {1, 2} \subseteq InBook(1)
    /\ executions = <<>>


\* ---------------------------------------------------------------------
\* The in-memory Order class (order.py)
\* ---------------------------------------------------------------------

\* arguments the threads call the methods of the Order object with
ObjectAmounts == {2, -2, 0}
ObjectShares == {-1, 0, 1, 3}
ObjectPrices == {1}
ObjectTimes == {1}

\* a thread leaves a method with a return value or an exception
Return(t, op, args, ret) ==
    thread' = [thread EXCEPT ![t] = [pc |-> "idle", op |-> op, ret |-> ret, args |-> args]]

\* Order(order_id, account_id, symbol, amount, limit_price, creation_time)
OrderInit(t, amount, limit_price, creation_time) ==
    /\ thread[t].pc = "idle"
    /\ order_object = NoObject
    /\ IF amount = 0
       THEN /\ Return(t, "Order", <<amount, limit_price>>, "ValueError")
            /\ UNCHANGED order_object
       ELSE /\ order_object' =
                   [amount |-> amount, limit_price |-> limit_price,
                    time |-> creation_time, open_shares |-> amount,
                    executions |-> <<>>, canceled_time |-> NoTime, lock |-> 0]
            /\ Return(t, "Order", <<amount, limit_price>>, "Order")
    /\ UNCHANGED <<server, account_object>>

\* get_executed_shares: the sum of the shares of the execution records
RECURSIVE GetExecutedShares(_)
GetExecutedShares(execs) ==
    IF execs = <<>> THEN 0 ELSE Head(execs)[1] + GetExecutedShares(Tail(execs))

\* the shares of an execution taken as requested, without the cap
ExecuteSharesUncapped(o, shares) == Abs(shares)

\* execute: "Cap shares at available open shares"
ExecuteShares(o, shares) == Min(Abs(shares), Abs(o.open_shares))

\* the body of execute on the fields of the object: the return value and the
\* object after it
Execute(o, shares, price, execution_time) ==
    IF o.canceled_time # NoTime
    THEN [ret |-> "False", object |-> o]
    ELSE LET execute_shares == ExecuteShares(o, shares) IN
         IF execute_shares <= 0
         THEN [ret |-> "False", object |-> o]
         ELSE [ret |-> "True",
               object |-> [o EXCEPT
                   !.open_shares = IF o.amount > 0 THEN @ - execute_shares
                                   ELSE @ + execute_shares,
                   !.executions = Append(@, <<execute_shares, price, execution_time>>)]]

\* order.execute(shares, price, execution_time): the whole body runs with the
\* lock of the object held
OrderExecute(t, shares, price, execution_time) ==
    /\ thread[t].pc = "idle"
    /\ order_object # NoObject
    /\ order_object.lock = 0
    /\ LET r == Execute(order_object, shares, price, execution_time) IN
           /\ order_object' = r.object
           /\ Return(t, "execute", <<shares, price>>, r.ret)
    /\ UNCHANGED <<server, account_object>>

\* order.cancel(cancel_time) up to its call of is_open: the thread takes the
\* lock of the object (threading.Lock, not reentrant) and keeps it
OrderCancel(t, cancel_time) ==
    /\ thread[t].pc = "idle"
    /\ order_object # NoObject
    /\ order_object.lock = 0
    /\ order_object' = [order_object EXCEPT !.lock = t]
    /\ thread' = [thread EXCEPT ![t] =
                    [pc |-> "cancel", op |-> "cancel", ret |-> "none",
                     args |-> <<cancel_time>>]]
    /\ UNCHANGED <<server, account_object>>

\* order.is_open(), called by a thread or by cancel: it waits for the lock of
\* the object, tests the fields and releases the lock; inside cancel the
\* rest of cancel follows
OrderIsOpen(t) ==
    /\ thread[t].pc \in {"idle", "cancel"}
    /\ order_object # NoObject
    /\ order_object.lock = 0
    /\ LET open == /\ order_object.open_shares # 0
                   /\ order_object.canceled_time = NoTime
       IN
       IF thread[t].pc = "idle"
       THEN /\ Return(t, "is_open", <<>>, IF open THEN "True" ELSE "False")
            /\ UNCHANGED order_object
       ELSE IF ~open
            THEN /\ Return(t, "cancel", thread[t].args, "False")
                 /\ UNCHANGED order_object
            ELSE /\ Return(t, "cancel", thread[t].args, "True")
                 /\ order_object' = [order_object EXCEPT
                        !.canceled_time = thread[t].args[1], !.open_shares = 0]
    /\ UNCHANGED <<server, account_object>>

\* the calls of one thread on the Order object
OrderStep(t) ==
    \/ \E amount \in ObjectAmounts, limit_price \in ObjectPrices, time \in ObjectTimes :
          OrderInit(t, amount, limit_price, time)
    \/ \E shares \in ObjectShares, price \in ObjectPrices, time \in ObjectTimes :
          OrderExecute(t, shares, price, time)
    \/ \E time \in ObjectTimes : OrderCancel(t, time)
    \/ OrderIsOpen(t)

OrderNext == \E t \in Threads : OrderStep(t)

\* threads calling the methods of one Order object
OrderSpec == Init /\ [][OrderNext]_vars

\* the same with every thread scheduled as long as it can take a step
OrderFairSpec == OrderSpec /\ \A t \in Threads : WF_vars(OrderStep(t))

\* C37: Order.cancel always terminates: a thread that has entered cancel
\* returns from it (True with open_shares 0 and canceled_time recorded on an
\* open order, False with nothing changed otherwise); it never waits for
\* the lock of the order it holds itself.
CancelTerminates ==
    \A t \in Threads : (thread[t].pc = "cancel") ~> (thread[t].pc = "idle")

AccountObjectIds == {1, -1}
AccountBalances == {-1, 1}
AccountDeltas == {-1, 1}
AccountQuantities == {0, 1}
AccountPrices == {1, 2}

\* Account(account_id, balance)
AccountInit(t, account_id, balance) ==
    /\ thread[t].pc = "idle"
    /\ account_object = NoObject
    /\ IF ~IsDigit(account_id) \/ balance < 0
       THEN /\ Return(t, "Account", <<account_id, balance>>, "ValueError")
            /\ UNCHANGED account_object
       ELSE /\ account_object' = [id |-> account_id, balance |-> balance,
                                  positions |-> <<>>]
            /\ Return(t, "Account", <<account_id, balance>>, "Account")
    /\ UNCHANGED <<server, order_object>>

\* self.positions.get(symbol, Decimal('0'))
PositionOf(o, symbol) ==
    IF symbol \in DOMAIN o.positions THEN o.positions[symbol] ELSE 0

\* self.positions[symbol] = new_position
SetPosition(o, symbol, new_position) ==
    [o EXCEPT !.positions = (symbol :> new_position) @@ @]

\* a test of the sign that lets every result pass
WouldBeNegativeNever(new_value) == FALSE

\* "Check if balance would become negative", "Check if position would
\* become negative"
WouldBeNegative(new_value) == new_value < 0

\* the methods of Account run their whole body with the lock of the object
\* held and call no other method: each call is one step
AccountCall(t) ==
    /\ thread[t].pc = "idle"
    /\ account_object # NoObject
    /\ UNCHANGED <<server, order_object>>

\* account.update_balance(amount)
AccountUpdateBalance(t, amount) ==
    /\ AccountCall(t)
    /\ LET new_balance == account_object.balance + amount IN
       /\ new_balance <= MaxBalance
       /\ IF WouldBeNegative(new_balance)
          THEN /\ Return(t, "update_balance", <<amount>>, "False")
               /\ UNCHANGED account_object
          ELSE /\ account_object' = [account_object EXCEPT !.balance = new_balance]
               /\ Return(t, "update_balance", <<amount>>, "True")

\* account.update_position(symbol, amount)
AccountUpdatePosition(t, symbol, amount) ==
    /\ AccountCall(t)
    /\ LET current == PositionOf(account_object, symbol)
           new_position == current + amount
       IN  /\ new_position <= MaxPosition
           /\ IF WouldBeNegative(new_position)
              THEN /\ Return(t, "update_position", <<symbol, amount>>, "False")
                   /\ UNCHANGED account_object
              ELSE /\ account_object' = SetPosition(account_object, symbol, new_position)
                   /\ Return(t, "update_position", <<symbol, amount>>, "True")

\* account.add_position(symbol, amount)
AccountAddPosition(t, symbol, amount) ==
    /\ AccountCall(t)
    /\ PositionOf(account_object, symbol) + amount <= MaxPosition
    /\ IF amount <= 0
       THEN /\ Return(t, "add_position", <<symbol, amount>>, "ValueError")
            /\ UNCHANGED account_object
       ELSE /\ account_object' = SetPosition(account_object, symbol,
                                     PositionOf(account_object, symbol) + amount)
            /\ Return(t, "add_position", <<symbol, amount>>, "True")

\* account.place_buy_order(symbol, amount, price)
AccountPlaceBuyOrder(t, symbol, amount, price) ==
    /\ AccountCall(t)
    /\ LET total_cost == amount * price IN
       IF account_object.balance < total_cost
       THEN /\ Return(t, "place_buy_order", <<symbol, amount, price>>, "False")
            /\ UNCHANGED account_object
       ELSE /\ account_object' = [account_object EXCEPT !.balance = @ - total_cost]
            /\ Return(t, "place_buy_order", <<symbol, amount, price>>, "True")

\* account.place_sell_order(symbol, amount)
AccountPlaceSellOrder(t, symbol, amount) ==
    /\ AccountCall(t)
    /\ IF \/ symbol \notin DOMAIN account_object.positions
          \/ account_object.positions[symbol] < amount
       THEN /\ Return(t, "place_sell_order", <<symbol, amount>>, "False")
            /\ UNCHANGED account_object
       ELSE /\ account_object' = [account_object EXCEPT !.positions[symbol] = @ - amount]
            /\ Return(t, "place_sell_order", <<symbol, amount>>, "True")

\* account.cancel_buy_order(amount, price)
AccountCancelBuyOrder(t, amount, price) ==
    /\ AccountCall(t)
    /\ LET refund == amount * price IN
       /\ account_object.balance + refund <= MaxBalance
       /\ account_object' = [account_object EXCEPT !.balance = @ + refund]
       /\ Return(t, "cancel_buy_order", <<amount, price>>, "True")

\* account.cancel_sell_order(symbol, amount)
AccountCancelSellOrder(t, symbol, amount) ==
    /\ AccountCall(t)
    /\ PositionOf(account_object, symbol) + amount <= MaxPosition
    /\ account_object' = SetPosition(account_object, symbol,
                             PositionOf(account_object, symbol) + amount)
    /\ Return(t, "cancel_sell_order", <<symbol, amount>>, "True")

\* account.execute_buy(symbol, amount, price)
AccountExecuteBuy(t, symbol, amount, price) ==
    /\ AccountCall(t)
    /\ PositionOf(account_object, symbol) + amount <= MaxPosition
    /\ account_object' = SetPosition(account_object, symbol,
                             PositionOf(account_object, symbol) + amount)
    /\ Return(t, "execute_buy", <<symbol, amount, price>>, "True")

\* account.execute_sell(symbol, amount, price)
AccountExecuteSell(t, symbol, amount, price) ==
    /\ AccountCall(t)
    /\ LET credit == amount * price IN
       /\ account_object.balance + credit <= MaxBalance
       /\ account_object' = [account_object EXCEPT !.balance = @ + credit]
       /\ Return(t, "execute_sell", <<symbol, amount, price>>, "True")

\* the calls of one thread on the Account object
AccountStep(t) ==
    \/ \E account_id \in AccountObjectIds, balance \in AccountBalances :
          AccountInit(t, account_id, balance)
    \/ \E amount \in AccountDeltas : AccountUpdateBalance(t, amount)
    \/ \E symbol \in Symbols, amount \in AccountDeltas :
          AccountUpdatePosition(t, symbol, amount)
    \/ \E symbol \in Symbols, amount \in AccountQuantities :
          \/ AccountAddPosition(t, symbol, amount)
          \/ AccountPlaceSellOrder(t, symbol, amount)
          \/ AccountCancelSellOrder(t, symbol, amount)
          \/ \E price \in AccountPrices :
                \/ AccountPlaceBuyOrder(t, symbol, amount, price)
                \/ AccountExecuteBuy(t, symbol, amount, price)
                \/ AccountExecuteSell(t, symbol, amount, price)
    \/ \E amount \in AccountQuantities, price \in AccountPrices :
          AccountCancelBuyOrder(t, amount, price)

AccountNext == \E t \in Threads : AccountStep(t)

\* threads calling the methods of one Account object
AccountSpec == Init /\ [][AccountNext]_vars

\* C39: the Account class invariant: after any sequence of its operations
\* (update_balance and update_position with either sign, the others with
\* non-negative amount and price) the balance is >= 0 and every position is
\* >= 0, and an operation that reports failure leaves balance and positions
\* unchanged.
AccountClassInvariant ==
    [][/\ account_object' # NoObject =>
             /\ account_object'.balance >= 0
             /\ \A s \in DOMAIN account_object'.positions :
                   account_object'.positions[s] >= 0
       /\ \A t \in Threads :
             (AccountStep(t) /\ thread'[t].ret \in {"False", "ValueError"}) =>
                 account_object' = account_object]_vars

\* update_balance(-1) has just been refused on an account whose balance a
\* buy has brought to 0 and that holds a position
AccountClassInvariantWitness ==
    /\ account_object # NoObject
    /\ account_object.balance = 0
    /\ "SYM" \in DOMAIN account_object.positions
    /\ account_object.positions["SYM"] > 0
    /\ \E t \in Threads :
          /\ thread[t].op = "update_balance"
          /\ thread[t].ret = "False"
          /\ thread[t].args = <<-1>>

====
